---- MODULE Spec2Model ----
(***************************************************************************)
(* Aurora: the scheduler (daemon.ts), the signal fuser's persistence       *)
(* (parallax.ts), the grader (reconcile.ts) and the optimizer's save path  *)
(* (paper_trade.ts), as one state machine over the shared store.           *)
(*                                                                         *)
(* Every `await` of the source is a point where another callback may run,  *)
(* so each async function is a process whose steps are the stretches of    *)
(* code between awaits that read or write the store.  Calls that are not   *)
(* awaited (runPredictionCycle() and expireOldPredictions() in start, and  *)
(* runPredictionCycle() in the timer callback) create a process and        *)
(* return.                                                                 *)
(***************************************************************************)
EXTENDS Bags, FiniteSets, Integers, Sequences, TLC

\* ---------------------------------------------------------------- bounds
MaxPreds == 2        \* rows of aurora_parallax_predictions
MaxCycles == 1       \* runPredictionCycle executions in flight
MaxGraders == 1      \* gradeOpenTrades executions in flight
MaxExpirers == 1     \* expireOldPredictions executions in flight
MaxDay == 1          \* calendar days after the first one
OverlapCycles == 2   \* executions in flight where cycles may outlast the interval
OverlapGraders == 2  \* executions in flight where a grading run may outlast a minute
OverlapPreds == 1    \* rows of aurora_parallax_predictions under overlapping graders
MaxFaults == 1       \* store errors thrown in one behaviour
MaxBatch == 5        \* predictions graded in one batch handed to checkAndTriggerEvolution
POPULATION_SIZE == 2 \* individuals of a generation (50 in paper_trade.ts)
ELITE_COUNT == 1     \* individuals copied unchanged into the next generation (5 in paper_trade.ts)
MaxTicks == 4        \* 30 s intervals the wall clock advances
MaxFuserCalls == 1   \* scoring calls in flight
MaxCandles == 2      \* candles of the window handed to buildTPOProfile
MaxDecades == 2      \* tens of candles beyond 50 in a replayed history
MaxDelay == 2        \* minutes that pass while one cycle awaits its fetches
MaxStoreTicks == 3   \* scheduler ticks that store candles
MaxAttempts == 6     \* logins of one address whose credentials are compared
MaxWaits == 4        \* waits of five minutes between the requests of one address

\* ------------------------------------------------------ program constants
REFRESH_INTERVAL_S == 30
GRADE_WINDOW_S == 10
CONFIDENCE_FLOOR == 60
TARGET_ACCURACY_PCT == 60
DEFAULT_MIN_CONFIDENCE == 60
GENES_REFRESH_INTERVAL == 60000
TICK_SIZE == 25
VALUE_AREA_PERCENT == 70

NULL == "null"

\* `Prediction | null`: the null of the engines is a record without engine.
NoPrediction == [direction |-> NULL, engine |-> NULL, confidence |-> 0]

\* parallax.ts 65-71 DEFAULT_WEIGHTS (tpo, rsi, ib, cvd, vwap), in hundredths;
\* the weights of paper_trade.ts DEFAULT_GENES are the same.
DEFAULT_WEIGHTS == <<25, 20, 20, 15, 20>>

Directions == {"CALL", "PUT"}
Engines == {"TPO_MIT", "ORB_MOMENTUM"}
\* time.ts MarketSession as getSession returns it; MORNING stands for every
\* trading session after the opening range (the cycle treats them alike).
Sessions ==
  {"CLOSED_WEEKEND", "CLOSED_HOLIDAY", "CLOSED", "PRE_MARKET", "OPENING_RANGE", "MORNING"}

\* Second-of-minute at which start() may be called: one below 10, one not;
\* the timer callbacks then run at seconds 35, 5, 35, ... and 45, 15, 45, ...
StartSeconds == {5, 15}

\* Confidence values the engines may compute, and minConfidence values of
\* the genes evolve() may return (createRandomGenes draws from [55,75]).
Confidences == {55, 62}
MinConfidences == {75}

VARIABLES
  isRunning,     \* daemon.ts: let isRunning
  intervalId,    \* daemon.ts: let intervalId (NULL or the handle "T")
  liveTimers,    \* number of interval timers that are set and not cleared
  sec,           \* second-of-minute at which the next timer callback runs
  today,         \* MarketTime.getTodayET(), as a day number
  predictions,   \* aurora_parallax_predictions: <<row>>, id = index
  scoredFloor,   \* id -> minConfidence of the active Weights row when the row was scored
  outcomes,      \* aurora_parallax_outcomes: id -> number of rows with predictionId = id
  parameters,    \* aurora_praxis_parameters rows of "SPY", ordered by lastUpdated
  deltas,        \* number of rows of aurora_praxis_deltas
  cycles,        \* bag of runPredictionCycle executions in flight
  graders,       \* bag of gradeOpenTrades executions in flight
  expirers,      \* bag of expireOldPredictions executions in flight
  TRADIER_SANDBOX_TOKEN, \* reservoir.ts 78: process.env has the vendor token (BOOLEAN)
  faults,        \* number of store errors thrown so far
  evolveRun,     \* paper_trade.ts evolve(): its position, population, nextGen, alpha
  clock,         \* Date.now(), in milliseconds since the process started
  genesCache,    \* parallax.ts 74: the genesCache entry of "SPY"
  fuserCalls,    \* bag of generateTPOMITPrediction executions at their scoring call
  grading,       \* reconcile.ts 42-110: one turn of the grader's loop, with its locals
  planning,      \* daemon.ts 145-213: the trade plan of a candidate on its way to the store
  profile,       \* buildTPOProfile: its candles and the profile it builds
  sessionCall,   \* time.ts getSession: the local date-time it reads and its result
  backtest,      \* runHistoricalBacktest: its inputs and its two replays
  orbCall,       \* generateORBPrediction as the cycle calls it: inputs and result
  fuse,          \* one call of an engine of the Fuser: its signals and its result
  reservoir,     \* the rows of aurora_market_candles and the minute of the day
  auth           \* auth.ts: the loginAttempts entry of one address, Date.now()

vars == <<isRunning, intervalId, liveTimers, sec, today, predictions,
          scoredFloor, outcomes, parameters, deltas, cycles, graders, expirers,
          TRADIER_SANDBOX_TOKEN, faults, evolveRun, clock, genesCache, fuserCalls,
          grading, planning, profile, sessionCall, backtest, orbCall, fuse, reservoir, auth>>

\* The process environment, fixed while the process lives, and the store
\* errors so far: only a failing statement adds one.
envVars == <<TRADIER_SANDBOX_TOKEN, faults, evolveRun, clock, genesCache, fuserCalls,
             grading, planning, profile, sessionCall, backtest, orbCall, fuse, reservoir, auth>>

\* Functions run on their own: each variable holds one application.
pureVars == <<grading, planning, profile, sessionCall, backtest, orbCall, fuse, reservoir, auth>>

\* The Fuser's weight cache and the wall clock it reads.
cacheVars == <<clock, genesCache, fuserCalls>>

\* What a store error in the grader leaves alone besides the store.
libVars == <<evolveRun, cacheVars, pureVars>>

daemonVars == <<isRunning, intervalId, liveTimers, sec>>
storeVars == <<predictions, scoredFloor, outcomes, parameters, deltas>>

One(r) == SetToBag({r})

\* StrategyGenes, the five component weights: weight i is w[i] / den.
NoGenes == [w |-> <<0, 0, 0, 0, 0>>, den |-> 1]

\* evolve() has not been called.
EvolveIdle == [pc |-> "idle", population |-> <<>>, nextGen |-> <<>>, alpha |-> NoGenes]

\* genesCache.get(ticker) is undefined.
NoCache == [weights |-> <<>>, writes |-> 0, lastRefresh |-> 0 - 1]

CacheIdle == clock = 0 /\ genesCache = NoCache /\ fuserCalls = EmptyBag

\* Everything but the functions run on their own.
systemVars ==
  <<TRADIER_SANDBOX_TOKEN, faults, evolveRun, cacheVars, daemonVars, today, storeVars,
    cycles, graders, expirers>>

\* The daemon not started, the store empty, nothing in flight.
SystemIdle ==
  /\ isRunning = FALSE /\ intervalId = NULL /\ liveTimers = 0 /\ sec = 0 /\ today = 0
  /\ predictions = <<>> /\ scoredFloor = <<>>
  /\ outcomes = [p \in 1..MaxPreds |-> 0]
  /\ parameters = <<>> /\ deltas = 0
  /\ cycles = EmptyBag /\ graders = EmptyBag /\ expirers = EmptyBag
  /\ TRADIER_SANDBOX_TOKEN = TRUE /\ faults = 0
  /\ evolveRun = [pc |-> "idle", population |-> <<>>, nextGen |-> <<>>, alpha |-> NoGenes]

\* A function that is not being applied.
Idle == [pc |-> "idle"]

\* The parts of the program a specification does not run, at rest.
LibIdle(running) ==
  /\ IF "cache" \in running THEN TRUE ELSE CacheIdle
  /\ IF "grading" \in running THEN TRUE ELSE grading = Idle
  /\ IF "planning" \in running THEN TRUE ELSE planning = Idle
  /\ IF "profile" \in running THEN TRUE ELSE profile = Idle
  /\ IF "sessionCall" \in running THEN TRUE ELSE sessionCall = Idle
  /\ IF "backtest" \in running THEN TRUE ELSE backtest = Idle
  /\ IF "orbCall" \in running THEN TRUE ELSE orbCall = Idle
  /\ IF "fuse" \in running THEN TRUE ELSE fuse = Idle
  /\ IF "reservoir" \in running THEN TRUE ELSE reservoir = Idle
  /\ IF "auth" \in running THEN TRUE ELSE auth = Idle

Ids == 1..Len(predictions)

IsActive(p) == predictions[p].status = "ACTIVE"

\* parallax.ts getActivePredictions / reconcile.ts select where status = ACTIVE
getActivePredictions == {p \in Ids : IsActive(p)}

\* daemon.ts 236-237 / reconcile.ts 145-146: generatedDate < today
IsStale(p, day) == predictions[p].generatedAt < day

\* The ACTIVE predictions generated on an earlier day than today.
StaleActive == {p \in getActivePredictions : IsStale(p, today)}

\* paper_trade.ts getActiveGenes: latest active row's config, else DEFAULT_GENES
getActiveGenes ==
  IF parameters = <<>> THEN DEFAULT_MIN_CONFIDENCE
  ELSE parameters[Len(parameters)].minConfidence

\* time.ts isTradingHours / isPreMarket, in terms of the session tag
isTradingHours(session) == session \in {"OPENING_RANGE", "MORNING"}
isPreMarket(session) == session = "PRE_MARKET"

Init ==
  /\ isRunning = FALSE
  /\ intervalId = NULL
  /\ liveTimers = 0
  /\ sec = 0
  /\ today = 0
  /\ predictions = <<>>
  /\ scoredFloor = <<>>
  /\ outcomes = [p \in 1..MaxPreds |-> 0]
  /\ parameters = <<>>
  /\ deltas = 0
  /\ cycles = EmptyBag
  /\ graders = EmptyBag
  /\ expirers = EmptyBag
  /\ TRADIER_SANDBOX_TOKEN \in BOOLEAN
  /\ faults = 0
  /\ evolveRun = EvolveIdle
  /\ LibIdle({})

\* ------------------------------------------------------------- scheduler

\* daemon.ts 68-91: the synchronous head of runPredictionCycle, up to the
\* first await.  A closed session returns at once; otherwise the execution
\* is in flight, waiting for fetchMultipleQuotes.  staleAtStart remembers,
\* for the execution launched by start(), the ACTIVE predictions that were
\* generated before today at that moment (none for a timer execution).
runPredictionCycle(session, staleAtStart) ==
  IF ~isTradingHours(session) /\ ~isPreMarket(session)
  THEN cycles
  ELSE cycles (+) One([pc |-> "fetch", session |-> session,
                       staleAtStart |-> staleAtStart,
                       cand |-> NoPrediction, floor |-> 0])

CycleRoom(session, maxCycles) ==
  (isTradingHours(session) \/ isPreMarket(session)) => BagCardinality(cycles) < maxCycles

\* daemon.ts 253-268: startAuroraDaemon past its isRunning check
StartFresh(seconds, maxCycles) ==
  /\ BagCardinality(expirers) < MaxExpirers
  /\ \E session \in Sessions, s0 \in seconds :
       /\ CycleRoom(session, maxCycles)
       /\ cycles' = runPredictionCycle(session, StaleActive)
       /\ sec' = (s0 + REFRESH_INTERVAL_S) % 60
  /\ isRunning' = TRUE
  /\ expirers' = expirers (+) One([pc |-> "select", todo |-> {}])
  /\ intervalId' = "T"
  /\ liveTimers' = liveTimers + 1
  /\ UNCHANGED <<envVars, today, storeVars, graders>>

\* startAuroraDaemon without its isRunning check.
StartUnguarded(seconds, maxCycles) == StartFresh(seconds, maxCycles)

\* daemon.ts 247-268 startAuroraDaemon: a call while running only logs
Start(seconds, maxCycles) ==
  IF isRunning THEN UNCHANGED vars ELSE StartFresh(seconds, maxCycles)

\* daemon.ts 276-279: clearInterval and the two assignments
StopRunning ==
  /\ liveTimers' = liveTimers - 1
  /\ intervalId' = NULL
  /\ isRunning' = FALSE
  /\ sec' = 0
  /\ UNCHANGED <<envVars, today, storeVars, cycles, graders, expirers>>

\* daemon.ts 270-280 stopAuroraDaemon: a call while not running only logs
Stop ==
  IF ~isRunning \/ intervalId = NULL THEN UNCHANGED vars ELSE StopRunning

\* reconcile.ts 27-31: a fresh execution of gradeOpenTrades, at its select
\* error names the statement group whose exception ended the run early;
\* before is the parameter table as checkAndTriggerEvolution found it.
gradeOpenTrades ==
  [pc |-> "select", todo |-> {}, cur |-> 0, graded |-> 0, wins |-> 0,
   genes |-> 0, existing |-> 0, error |-> NULL, before |-> <<>>]

\* daemon.ts 259-267: the interval callback.  It starts a cycle without
\* awaiting it and, when the second-of-minute is below 10, the grader.
TimerTick(maxCycles, maxGraders) ==
  /\ liveTimers > 0
  /\ \E session \in Sessions :
       /\ CycleRoom(session, maxCycles)
       /\ cycles' = runPredictionCycle(session, {})
  /\ IF sec < GRADE_WINDOW_S
     THEN /\ BagCardinality(graders) < maxGraders
          /\ graders' = graders (+) One(gradeOpenTrades)
     ELSE graders' = graders
  /\ sec' = (sec + REFRESH_INTERVAL_S) % 60
  /\ UNCHANGED <<envVars, isRunning, intervalId, liveTimers, today, storeVars, expirers>>

\* The calendar date in America/New_York advances.
DayRollover ==
  /\ today < MaxDay
  /\ today' = today + 1
  /\ UNCHANGED <<envVars, daemonVars, storeVars, cycles, graders, expirers>>

\* --------------------------------------------------- runPredictionCycle

\* parallax.ts 142-239 generateTPOMITPrediction: the candles and the price
\* decide direction and confidence; the weights come from
\* getWeightsFromPraxis, which hands over the five component weights only.
generateTPOMITPrediction(direction, confidence) ==
  IF confidence < CONFIDENCE_FLOOR THEN NoPrediction
  ELSE [direction |-> direction, engine |-> "TPO_MIT", confidence |-> confidence]

\* parallax.ts 285-353 generateORBPrediction
generateORBPrediction(direction, confidence) ==
  IF confidence < CONFIDENCE_FLOOR THEN NoPrediction
  ELSE [direction |-> direction, engine |-> "ORB_MOMENTUM", confidence |-> confidence]

\* Executions that already hold a candidate: rows still to come.
CandidatesInFlight ==
  BagCardinality(cycles) - BagCardinality([c \in {x \in BagToSet(cycles) : x.pc = "fetch"} |-> cycles[c]])

\* daemon.ts 91-145: quotes and candles arrive and are stored, the engine of
\* the session runs.  The execution ends when the feed is empty, an await
\* throws, or no prediction of confidence >= 60 comes out.  Without the
\* token getApiToken throws inside tradierFetch, which catches and returns
\* null (reservoir.ts 77-104): every feed call comes back empty.
CycleFuse(maxPreds) ==
  \E c \in BagToSet(cycles) :
    /\ c.pc = "fetch"
    /\ \E direction \in Directions, confidence \in Confidences, orb \in BOOLEAN,
          gotData \in {TRUE, FALSE} \ (IF TRADIER_SANDBOX_TOKEN THEN {} ELSE {TRUE}) :
         LET tpo == IF isTradingHours(c.session) /\ gotData
                    THEN generateTPOMITPrediction(direction, confidence) ELSE NoPrediction
             prediction ==
               IF tpo = NoPrediction /\ c.session = "OPENING_RANGE" /\ gotData /\ orb
               THEN generateORBPrediction(direction, confidence)
               ELSE tpo
         IN  IF prediction # NoPrediction /\ prediction.confidence >= CONFIDENCE_FLOOR
             THEN /\ Len(predictions) + CandidatesInFlight < maxPreds
                  /\ cycles' = (cycles (-) One(c)) (+)
                                 One([c EXCEPT !.pc = "check", !.session = NULL,
                                               !.cand = prediction, !.floor = getActiveGenes])
             ELSE cycles' = cycles (-) One(c)
    /\ UNCHANGED <<envVars, daemonVars, today, storeVars, graders, expirers>>

\* daemon.ts 146-151, 214-216: read the ACTIVE predictions of the ticker and
\* skip the candidate when one has its direction and engine.
CycleCheck ==
  \E c \in BagToSet(cycles) :
    /\ c.pc = "check"
    /\ LET hasSameDirection ==
             \E p \in getActivePredictions :
               /\ predictions[p].direction = c.cand.direction
               /\ predictions[p].engine = c.cand.engine
       IN  cycles' = IF hasSameDirection
                     THEN cycles (-) One(c)
                     ELSE (cycles (-) One(c)) (+) One([c EXCEPT !.pc = "store", !.staleAtStart = {}])
    /\ UNCHANGED <<envVars, daemonVars, today, storeVars, graders, expirers>>

\* parallax.ts 355-374 storePrediction, reached at daemon.ts 211 after the
\* awaits of fetch0DTEExpiration and fetchOptionChain.
storePrediction(cand) ==
  Append(predictions,
         [direction |-> cand.direction, engine |-> cand.engine,
          confidence |-> cand.confidence, status |-> "ACTIVE", generatedAt |-> today])

CycleStore ==
  \E c \in BagToSet(cycles) :
    /\ c.pc = "store"
    /\ predictions' = storePrediction(c.cand)
    /\ scoredFloor' = Append(scoredFloor, c.floor)
    /\ cycles' = cycles (-) One(c)
    /\ UNCHANGED <<envVars, daemonVars, today, outcomes, parameters, deltas, graders, expirers>>

\* ------------------------------------------------------ gradeOpenTrades

Replace(bag, old, new) == (bag (-) One(old)) (+) One(new)

Min(S) == CHOOSE x \in S : \A y \in S : x <= y

\* reconcile.ts 31-38: select the ACTIVE predictions; none, return.
GraderSelect ==
  \E g \in BagToSet(graders) :
    /\ g.pc = "select"
    /\ graders' = IF getActivePredictions = {}
                  THEN graders (-) One(g)
                  ELSE Replace(graders, g, [g EXCEPT !.pc = "loop", !.todo = getActivePredictions])
    /\ UNCHANGED <<envVars, daemonVars, today, storeVars, cycles, expirers>>

\* reconcile.ts 42-96: the next prediction of the list; its last candle is
\* read, WIN or LOSS is decided from the prices, the Outcome row is inserted.
\* Rows written by a cycle carry the engine's entry level and the ticker has
\* candles stored, so the two `continue`s at 49-66 are not taken for them.
GraderInsertOutcome ==
  \E g \in BagToSet(graders) :
    /\ g.pc = "loop"
    /\ g.todo # {}
    /\ \E isWin \in BOOLEAN :
       LET p == Min(g.todo) IN
         /\ outcomes' = [outcomes EXCEPT ![p] = @ + 1]
         /\ graders' = Replace(graders, g,
                         [g EXCEPT !.pc = "update", !.todo = @ \ {p}, !.cur = p,
                                   !.wins = @ + (IF isWin THEN 1 ELSE 0)])
    /\ UNCHANGED <<envVars, daemonVars, today, predictions, scoredFloor, parameters, deltas,
                   cycles, expirers>>

\* reconcile.ts 98-110: update ... set status = CLOSED where id = pred.id
GraderUpdateStatus ==
  \E g \in BagToSet(graders) :
    /\ g.pc = "update"
    /\ predictions' = [predictions EXCEPT ![g.cur].status = "CLOSED"]
    /\ graders' = Replace(graders, g,
                    [g EXCEPT !.pc = "loop", !.cur = 0, !.graded = @ + 1])
    /\ UNCHANGED <<envVars, daemonVars, today, scoredFloor, outcomes, parameters, deltas,
                   cycles, expirers>>

\* reconcile.ts 123-127: the catch of gradeOpenTrades logs the error and the
\* function returns its results.
caught(g, kind) == [g EXCEPT !.pc = "return", !.error = kind]

\* reconcile.ts 31-101 under a store error: the select of the ACTIVE rows,
\* the candle select or Outcome insert of the next prediction, or the status
\* update throws.  The try block spans the whole loop.
GraderThrows ==
  \E g \in BagToSet(graders) :
    /\ faults < MaxFaults
    /\ g.pc = "select" \/ (g.pc = "loop" /\ g.todo # {}) \/ g.pc = "update"
    /\ graders' = Replace(graders, g, caught(g, "grade"))
    /\ faults' = faults + 1
    /\ UNCHANGED <<TRADIER_SANDBOX_TOKEN, libVars, daemonVars, today, storeVars, cycles, expirers>>

\* The trigger with the target itself counted as below target.
TriggersEvolutionInclusive(wins, graded) == wins * 100 <= TARGET_ACCURACY_PCT * graded

\* paper_trade.ts 463-474 checkAndTriggerEvolution: currentWinRate < 0.60
TriggersEvolution(wins, graded) == wins * 100 < TARGET_ACCURACY_PCT * graded

\* reconcile.ts 113-122 with paper_trade.ts 347-391, 463-468: after the
\* list, the batch win rate goes to checkAndTriggerEvolution; below the
\* target evolve() returns the alpha genes and saveAlphaGenes starts,
\* otherwise the call returns false.
GraderFinish ==
  \E g \in BagToSet(graders) :
    /\ g.pc = "loop" /\ g.todo = {} /\ g.graded > 0
    /\ IF TriggersEvolution(g.wins, g.graded)
       THEN \E m \in MinConfidences :
              graders' = Replace(graders, g,
                           [g EXCEPT !.pc = "saveSelect", !.genes = m, !.before = parameters])
       ELSE graders' = Replace(graders, g, [g EXCEPT !.pc = "return", !.before = parameters])
    /\ UNCHANGED <<envVars, daemonVars, today, storeVars, cycles, expirers>>

\* paper_trade.ts 321-328, 355-357: a store error in calculateFitness leaves
\* evolve() and checkAndTriggerEvolution, which have no catch, and is caught
\* by gradeOpenTrades.
EvolveThrows ==
  \E g \in BagToSet(graders) :
    /\ g.pc = "loop" /\ g.todo = {} /\ g.graded > 0
    /\ faults < MaxFaults
    /\ TriggersEvolution(g.wins, g.graded)
    /\ graders' = Replace(graders, g, caught([g EXCEPT !.before = parameters], "evolve"))
    /\ faults' = faults + 1
    /\ UNCHANGED <<TRADIER_SANDBOX_TOKEN, libVars, daemonVars, today, storeVars, cycles, expirers>>

\* paper_trade.ts 423-427: select ... where name = ticker limit 1
SaveSelect ==
  \E g \in BagToSet(graders) :
    /\ g.pc = "saveSelect"
    /\ IF parameters = <<>>
       THEN graders' = Replace(graders, g, [g EXCEPT !.pc = "saveInsert"])
       ELSE \E i \in 1..Len(parameters) :
              graders' = Replace(graders, g,
                           [g EXCEPT !.pc = "saveDelta", !.existing = parameters[i].id])
    /\ UNCHANGED <<envVars, daemonVars, today, storeVars, cycles, expirers>>

\* paper_trade.ts 431-436: insert the delta row
SaveDelta ==
  \E g \in BagToSet(graders) :
    /\ g.pc = "saveDelta"
    /\ deltas' = deltas + 1
    /\ graders' = Replace(graders, g, [g EXCEPT !.pc = "saveUpdate"])
    /\ UNCHANGED <<envVars, daemonVars, today, predictions, scoredFloor, outcomes, parameters,
                   cycles, expirers>>

\* The five component weights of the genes evolve() returns, in hundredths.
AlphaWeights == <<40, 15, 15, 10, 20>>

\* The row `id` of aurora_praxis_parameters with config written once more,
\* lastUpdated being new Date() (444) or the column default now() (insert).
\* `writes` counts the times the row's config was written.
writeConfig(id, genes) ==
  LET old == SelectSeq(parameters, LAMBDA r : r.id = id)
  IN  Append(SelectSeq(parameters, LAMBDA r : r.id # id),
             [id |-> id, minConfidence |-> genes, weights |-> AlphaWeights,
              writes |-> IF old = <<>> THEN 1 ELSE old[1].writes + 1,
              lastUpdated |-> clock])

\* paper_trade.ts 439-446: update config, winRate, lastUpdated of the row;
\* saveAlphaGenes and checkAndTriggerEvolution return.
SaveUpdate ==
  \E g \in BagToSet(graders) :
    /\ g.pc = "saveUpdate"
    /\ parameters' = writeConfig(g.existing, g.genes)
    /\ graders' = Replace(graders, g, [g EXCEPT !.pc = "return", !.before = <<>>])
    /\ UNCHANGED <<envVars, daemonVars, today, predictions, scoredFloor, outcomes, deltas,
                   cycles, expirers>>

\* paper_trade.ts 449-454: insert a new active row; both functions return.
SaveInsert ==
  \E g \in BagToSet(graders) :
    /\ g.pc = "saveInsert"
    /\ parameters' = writeConfig(Len(parameters) + 1, g.genes)
    /\ graders' = Replace(graders, g, [g EXCEPT !.pc = "return", !.before = <<>>])
    /\ UNCHANGED <<envVars, daemonVars, today, predictions, scoredFloor, outcomes, deltas,
                   cycles, expirers>>

\* An update done as delete-and-insert, failing between the two.
rowDeleted(g) == SelectSeq(parameters, LAMBDA r : r.id # g.existing)

\* paper_trade.ts 423-454: each statement of saveAlphaGenes is a single
\* select, insert or update; one that throws has written nothing.
afterFailedStatement(g) == parameters

\* paper_trade.ts 422-460 under a store error: the statement the execution
\* is at throws and writes nothing; the catch of saveAlphaGenes logs, the
\* function returns, and so does checkAndTriggerEvolution.
SaveThrows ==
  \E g \in BagToSet(graders) :
    /\ faults < MaxFaults
    /\ g.pc \in {"saveSelect", "saveDelta", "saveUpdate", "saveInsert"}
    /\ parameters' = afterFailedStatement(g)
    /\ graders' = Replace(graders, g, [g EXCEPT !.pc = "return", !.error = "save"])
    /\ faults' = faults + 1
    /\ UNCHANGED <<TRADIER_SANDBOX_TOKEN, libVars, daemonVars, today, predictions, scoredFloor,
                   outcomes, deltas, cycles, expirers>>

\* reconcile.ts 127: return results
GraderReturn ==
  \E g \in BagToSet(graders) :
    /\ g.pc = "return"
    /\ graders' = graders (-) One(g)
    /\ UNCHANGED <<envVars, daemonVars, today, storeVars, cycles, expirers>>

\* ------------------------------------------------- expireOldPredictions

Max(S) == CHOOSE x \in S : \A y \in S : y <= x

\* daemon.ts 231-237: the ACTIVE predictions, newest first, and today; the
\* loop acts on those generated before today.
ExpireSelect ==
  \E e \in BagToSet(expirers) :
    /\ e.pc = "select"
    /\ expirers' = IF StaleActive = {}
                    THEN expirers (-) One(e)
                    ELSE Replace(expirers, e, [pc |-> "update", todo |-> StaleActive])
    /\ UNCHANGED <<envVars, daemonVars, today, storeVars, cycles, graders>>

\* parallax.ts 413-421 updatePredictionStatus(id, "EXPIRED"), daemon.ts 238
updatePredictionStatus(p, status) == [predictions EXCEPT ![p].status = status]

ExpireUpdate ==
  \E e \in BagToSet(expirers) :
    /\ e.pc = "update"
    /\ LET p == Max(e.todo)
       IN  /\ predictions' = updatePredictionStatus(p, "EXPIRED")
           /\ expirers' = IF e.todo = {p}
                          THEN expirers (-) One(e)
                          ELSE Replace(expirers, e, [e EXCEPT !.todo = @ \ {p}])
    /\ UNCHANGED <<envVars, daemonVars, today, scoredFloor, outcomes, parameters, deltas,
                   cycles, graders>>

CycleSteps(maxPreds) == CycleFuse(maxPreds) \/ CycleCheck \/ CycleStore

GraderSteps ==
  \/ GraderSelect \/ GraderInsertOutcome \/ GraderUpdateStatus \/ GraderFinish
  \/ SaveSelect \/ SaveDelta \/ SaveUpdate \/ SaveInsert \/ GraderReturn

\* Store errors in the grader and in the optimizer it awaits.
GraderFaults == GraderThrows \/ EvolveThrows \/ SaveThrows

ExpireSteps == ExpireSelect \/ ExpireUpdate

\* Start seconds from which no interval callback sees a second below 10.
QuietSeconds ==
  {s \in StartSeconds : s >= GRADE_WINDOW_S
                        /\ (s + REFRESH_INTERVAL_S) % 60 >= GRADE_WINDOW_S}

\* Every execution ends before the next one of its kind starts.
Next ==
  \/ Start(StartSeconds, MaxCycles) \/ Stop \/ TimerTick(MaxCycles, MaxGraders)
  \/ DayRollover \/ CycleSteps(MaxPreds) \/ GraderSteps \/ ExpireSteps

Spec == Init /\ [][Next]_vars

\* One trading day, on which statements of the grader and of the optimizer
\* may throw; the startup sweep finds nothing to expire.
NextFaults ==
  \/ Start(StartSeconds, MaxCycles) \/ Stop \/ TimerTick(MaxCycles, MaxGraders)
  \/ CycleSteps(MaxPreds) \/ GraderSteps \/ GraderFaults \/ ExpireSelect

SpecFaults == Init /\ [][NextFaults]_vars

\* checkAndTriggerEvolution on its own: a grading run stands at reconcile.ts
\* 113 with the results of its batch, any number of wins out of up to
\* MaxBatch graded, and SPY has no parameter row or one.  The rows the batch
\* came from play no part in the function and are left out.
InitTrigger ==
  /\ isRunning = FALSE /\ intervalId = NULL /\ liveTimers = 0 /\ sec = 0 /\ today = 0
  /\ predictions = <<>> /\ scoredFloor = <<>>
  /\ outcomes = [p \in 1..MaxPreds |-> 0]
  /\ parameters \in {<<>>, <<[id |-> 1, minConfidence |-> DEFAULT_MIN_CONFIDENCE,
                               weights |-> DEFAULT_WEIGHTS, writes |-> 1, lastUpdated |-> 0]>>}
  /\ deltas = 0
  /\ cycles = EmptyBag /\ expirers = EmptyBag
  /\ graders \in {One([gradeOpenTrades EXCEPT !.pc = "loop", !.graded = b[1], !.wins = b[2]]) :
                    b \in {x \in (1..MaxBatch) \X (0..MaxBatch) : x[2] <= x[1]}}
  /\ TRADIER_SANDBOX_TOKEN = TRUE
  /\ faults = 0
  /\ evolveRun = EvolveIdle
  /\ LibIdle({})

NextTrigger ==
  \/ GraderFinish \/ EvolveThrows \/ SaveSelect \/ SaveDelta \/ SaveUpdate \/ SaveInsert
  \/ SaveThrows \/ GraderReturn

SpecTrigger == InitTrigger /\ [][NextTrigger]_vars

----------------------------------------------------------------------------
(* The optimizer, paper_trade.ts evolve().  A weight is the exact rational  *)
(* w[i] / den, so that a sum of weights is compared with 1 without          *)
(* rounding.  Random draws are hundredths.  minConfidence and the three     *)
(* multipliers are carried unchanged by normalizeWeights and are left out.  *)

Sum5(w) == w[1] + w[2] + w[3] + w[4] + w[5]

DEFAULT_GENES == [w |-> <<25, 20, 20, 15, 20>>, den |-> 100]

clamp(value, min, max) == IF value > max THEN (IF max < min THEN min ELSE max)
                          ELSE IF value < min THEN min ELSE value

\* Draws of createRandomGenes(): tpo from [0.1, 0.4), cvd from [0.05, 0.25),
\* rsi, ib and vwap from [0.1, 0.3).  Nothing divides by the total.
createRandomGenes ==
  {[w |-> <<t, 20, 20, c, 20>>, den |-> 100] : t \in {10, 25}, c \in {5, 15}}

\* normalizeWeights with the division left out.
notNormalized(genes) == genes

RECURSIVE gcd(_, _)
gcd(a, b) == IF b = 0 THEN a ELSE gcd(b, a % b)

\* Dividing w[i] / den by total / den gives w[i] / total, written in lowest
\* terms.
normalizeWeights(genes) ==
  LET total == Sum5(genes.w)
      k == gcd(gcd(gcd(gcd(genes.w[1], genes.w[2]), genes.w[3]), genes.w[4]), genes.w[5])
  IN  IF total = 0 THEN DEFAULT_GENES
      ELSE [w |-> [i \in 1..5 |-> genes.w[i] \div k], den |-> total \div k]

\* The clamp bounds of mutate(), in hundredths.
MutateMin == <<5, 5, 5, 5, 5>>
MutateMax == <<50, 40, 40, 30, 40>>

\* One Math.random() < MUTATION_RATE test and the randomInRange(-0.05, 0.05)
\* drawn when it passes, in hundredths.
Mutations == {<<FALSE, 0>>, <<TRUE, -5>>, <<TRUE, 3>>}

\* Over the denominator 100 * den: w[i]/den + d/100 is (100 w[i] + d den),
\* clamped between lo den and hi den.
mutate(genes, hit) ==
  LET mutated == [i \in 1..5 |->
                    IF hit[i][1]
                      THEN clamp(100 * genes.w[i] + hit[i][2] * genes.den,
                                 MutateMin[i] * genes.den, MutateMax[i] * genes.den)
                      ELSE 100 * genes.w[i]]
  IN  normalizeWeights([w |-> mutated, den |-> 100 * genes.den])

\* coin[i] is the outcome of Math.random() < 0.5 for weight i; both parents
\* are brought to the denominator den1 * den2.
crossover(parent1, parent2, coin) ==
  LET child == [i \in 1..5 |-> IF coin[i] THEN parent1.w[i] * parent2.den
                                          ELSE parent2.w[i] * parent1.den]
  IN  normalizeWeights([w |-> child, den |-> parent1.den * parent2.den])

\* Values of calculateFitness in tenths: 0 when every outcome lost, 5 when
\* there is no outcome.  The genes are not read.
calculateFitness == {0, 5}

\* Array.prototype.sort with (a, b) => b.fitness - a.fitness: descending and
\* stable.
RECURSIVE sortByFitness(_, _)
sortByFitness(individuals, values) ==
  IF values = {} THEN <<>>
  ELSE LET top == Max(values)
       IN  SelectSeq(individuals, LAMBDA x : x.fitness = top)
             \o sortByFitness(individuals, values \ {top})

\* The individuals selectParent can return: roulette over positive fitness,
\* any of them when the total is 0.
selectParent(pool) ==
  LET positive == {i \in 1..Len(pool) : pool[i].fitness > 0}
  IN  {pool[i] : i \in (IF positive = {} THEN 1..Len(pool) ELSE positive)}

notEvolving ==
  <<isRunning, intervalId, liveTimers, sec, today, predictions, scoredFloor, outcomes,
    parameters, deltas, cycles, graders, expirers, TRADIER_SANDBOX_TOKEN, faults,
    cacheVars, pureVars>>

\* 350-353: POPULATION_SIZE individuals of random genes, fitness 0.
EvolveCreate ==
  /\ evolveRun.pc = "idle"
  /\ \E genes \in [1..POPULATION_SIZE -> createRandomGenes] :
       evolveRun' = [evolveRun EXCEPT
                       !.pc = "rank",
                       !.population = [i \in 1..POPULATION_SIZE |->
                                         [genes |-> genes[i], fitness |-> 0]]]
  /\ UNCHANGED notEvolving

\* 355-365: fitness of each individual, the sort, and the elites copied as
\* they are into nextGen.
EvolveRank ==
  /\ evolveRun.pc = "rank"
  /\ \E fitness \in [1..POPULATION_SIZE -> calculateFitness] :
       LET scored == [i \in 1..POPULATION_SIZE |->
                        [evolveRun.population[i] EXCEPT !.fitness = fitness[i]]]
           sorted == sortByFitness(scored, calculateFitness)
       IN  evolveRun' = [evolveRun EXCEPT
                           !.pc = "breed",
                           !.population = sorted,
                           !.nextGen = SubSeq(sorted, 1, Min({ELITE_COUNT, Len(sorted)}))]
  /\ UNCHANGED notEvolving

\* 367-380, one turn of the while loop: two parents from the top half, a
\* crossover or a copy of parent1, then mutate.
EvolveBreed ==
  /\ evolveRun.pc = "breed"
  /\ Len(evolveRun.nextGen) < POPULATION_SIZE
  /\ LET pool == SubSeq(evolveRun.population, 1, POPULATION_SIZE \div 2)
     IN  \E parent1 \in selectParent(pool), parent2 \in selectParent(pool),
            cross \in BOOLEAN, coin \in [1..5 -> BOOLEAN], hit \in [1..5 -> Mutations] :
           LET childGenes == IF cross THEN crossover(parent1.genes, parent2.genes, coin)
                                      ELSE parent1.genes
           IN  evolveRun' = [evolveRun EXCEPT
                               !.nextGen = Append(@, [genes |-> mutate(childGenes, hit),
                                                      fitness |-> 0])]
  /\ UNCHANGED notEvolving

\* 382-390: fitness of nextGen, the sort, and the first individual's genes
\* returned; the two arrays are locals and go with the call.
EvolveAlpha ==
  /\ evolveRun.pc = "breed"
  /\ Len(evolveRun.nextGen) >= POPULATION_SIZE
  /\ \E fitness \in [1..Len(evolveRun.nextGen) -> calculateFitness] :
       LET scored == [i \in 1..Len(evolveRun.nextGen) |->
                        [evolveRun.nextGen[i] EXCEPT !.fitness = fitness[i]]]
           sorted == sortByFitness(scored, calculateFitness)
       IN  evolveRun' = [evolveRun EXCEPT
                           !.pc = "done", !.population = <<>>, !.nextGen = <<>>,
                           !.alpha = sorted[1].genes]
  /\ UNCHANGED notEvolving

NextEvolve == EvolveCreate \/ EvolveRank \/ EvolveBreed \/ EvolveAlpha

\* evolve() on its own; the vendor token plays no part in it.
InitEvolve == Init /\ TRADIER_SANDBOX_TOKEN = TRUE

SpecEvolve == InitEvolve /\ [][NextEvolve]_vars

\* Cycles may outlast the 30 s interval; the daemon is started at a second
\* from which the interval callback never runs the grader.
NextCycles ==
  \/ Start(QuietSeconds, OverlapCycles) \/ Stop \/ TimerTick(OverlapCycles, MaxGraders)
  \/ DayRollover \/ CycleSteps(MaxPreds) \/ ExpireSteps

SpecCycles == Init /\ [][NextCycles]_vars

\* A grading run may outlast the minute between two of its invocations.
NextGraders ==
  \/ Start(StartSeconds, MaxCycles) \/ Stop \/ TimerTick(MaxCycles, OverlapGraders)
  \/ DayRollover \/ CycleSteps(OverlapPreds) \/ GraderSteps \/ ExpireSteps

SpecGraders == Init /\ [][NextGraders]_vars

\* The interval timer fires while it is set, and every awaited database or
\* network call settles, so each execution in flight takes its next step.
\* Nothing forces start(), stop() or midnight.
FairSpec ==
  /\ Spec
  /\ WF_vars(TimerTick(MaxCycles, MaxGraders))
  /\ WF_vars(CycleSteps(MaxPreds))
  /\ WF_vars(GraderSteps)
  /\ WF_vars(ExpireSteps)

\* ================================================================ properties

\* C1: in every reachable state, for each (ticker, direction, engine) at most
\* one prediction has status ACTIVE, also when cycles overlap because one
\* outlasts the 30 s interval.  (The daemon's only underlier here is SPY.)
C1_OneActivePerKey ==
  \A p, q \in getActivePredictions :
    (predictions[p].direction = predictions[q].direction
       /\ predictions[p].engine = predictions[q].engine) => p = q

\* C2: in every reachable state, a CLOSED prediction is referenced by exactly
\* one Outcome row and an EXPIRED prediction by none, whatever the
\* interleaving of the grader and the expiry sweep.
C2_OutcomeMatchesTerminalStatus ==
  \A p \in Ids :
    /\ predictions[p].status = "CLOSED" => outcomes[p] = 1
    /\ predictions[p].status = "EXPIRED" => outcomes[p] = 0

\* C3: a prediction row changes status at most once: a row that is CLOSED or
\* EXPIRED keeps its status in every step, and no row returns to ACTIVE.
C3_TerminalStatusIsFinal ==
  [][\A p \in Ids :
       predictions[p].status # "ACTIVE" => predictions'[p].status = predictions[p].status]_vars

\* C4: a prediction is persisted only if its confidence is at least the
\* minConfidence of the Weights row active when it was scored (60 when there
\* is none): after the optimizer installs 75 no row below 75 is stored.
C4_ConfidenceAtLeastActiveMinimum ==
  \A p \in Ids : predictions[p].confidence >= scoredFloor[p]

\* C5: the Outcome insert and the status update to CLOSED are atomic, and so
\* are the ParameterDelta insert and the active-row update: no state has a
\* prediction with an Outcome row and status ACTIVE, and no state lies
\* between a delta insert and the row update it belongs to.
C5_GradeAndSaveAreAtomic ==
  /\ \A p \in Ids : outcomes[p] > 0 => ~IsActive(p)
  /\ \A g \in BagToSet(graders) : g.pc # "saveUpdate"

\* C6: at no time are two invocations of gradeOpenTrades in progress, also
\* when a grading run lasts longer than the time to the next callback that
\* starts one.
C6_GraderNeverConcurrentWithItself == BagCardinality(graders) <= 1

\* C7: two runPredictionCycle executions for the same ticker never overlap,
\* the cycle launched by start() and the first timer cycle included.
C7_CyclesNeverOverlap == BagCardinality(cycles) <= 1

\* C8: while the daemon runs, the grader is invoked exactly once per
\* wall-clock minute, on the first 30-second tick of that minute, whatever
\* the second at which start() was called: an interval callback starts the
\* grader if and only if it is the first callback of its minute.
C8_GraderOnFirstTickOfEachMinute ==
  [][(liveTimers > 0 /\ liveTimers' > 0 /\ sec' # sec) =>
       ((sec < REFRESH_INTERVAL_S) <=>
          (BagCardinality(graders') = BagCardinality(graders) + 1))]_vars

\* C9: every prediction that was ACTIVE and generated before today when
\* start() was called is EXPIRED before the cycle launched by that start()
\* reads the set of ACTIVE predictions: in the step in which that cycle
\* reads the set, all of them are EXPIRED.
C9_ExpiredBeforeFirstCycleReads ==
  [][\A c \in BagToSet(cycles) :
       (c.pc = "check" /\ CopiesIn(c, cycles') < CopiesIn(c, cycles)) =>
         \A p \in c.staleAtStart : predictions[p].status = "EXPIRED"]_vars

\* C10: while the daemon keeps running across a day boundary, every
\* prediction that is ACTIVE and was generated on an earlier day is
\* eventually marked EXPIRED.
C10_StaleEventuallyExpired ==
  \A p \in 1..MaxPreds :
    (isRunning /\ p \in StaleActive)
      ~> (~isRunning \/ (p \in Ids /\ predictions[p].status = "EXPIRED"))

\* An interval callback: the timer stays live and the clock moves on.
IsTimerTick == liveTimers > 0 /\ liveTimers' > 0 /\ sec' # sec

\* C11: on a tick at which the session is CLOSED_WEEKEND, CLOSED_HOLIDAY or
\* CLOSED the scheduler only logs and returns: nothing is fetched or
\* persisted and the grader is not invoked.  (A callback that launches no
\* cycle is one that found the session closed.)
C11_ClosedTickOnlyReturns ==
  [][(IsTimerTick /\ cycles' = cycles) =>
       (graders' = graders /\ storeVars' = storeVars)]_vars

\* C12: after any sequence of start() and stop() calls at most one periodic
\* timer is live, and one is live exactly when isRunning; after stop() no
\* cycle and no grader is started, and stop() leaves every execution in
\* flight as it is, to run to completion.
C12_OneTimerIffRunning ==
  /\ [](liveTimers <= 1 /\ (liveTimers = 1 <=> isRunning) /\ (intervalId # NULL <=> isRunning))
  /\ [][(~isRunning' =>
           /\ BagCardinality(cycles') <= BagCardinality(cycles)
           /\ BagCardinality(graders') <= BagCardinality(graders))
        /\ ((isRunning /\ ~isRunning') =>
              (cycles' = cycles /\ graders' = graders /\ expirers' = expirers))]_vars

\* C12's case: stop() was called while a cycle and a grading run were in flight.
C12_StoppedWithWorkInFlight ==
  /\ ~isRunning /\ liveTimers = 0
  /\ cycles # EmptyBag /\ graders # EmptyBag

\* C13: when the vendor token is missing start() refuses to start: the daemon
\* is not running, no timer is installed and no cycle has been launched.
C13_NoStartWithoutToken ==
  ~TRADIER_SANDBOX_TOKEN =>
    (~isRunning /\ liveTimers = 0 /\ intervalId = NULL /\ cycles = EmptyBag)

\* C14: an error while grading one ACTIVE prediction is confined to that
\* prediction: the run still goes through the rest of its list and still
\* makes the batch win-rate check, so a run that returns has no prediction
\* left ungraded or half graded and, if it graded any, has made the check.
C14_ErrorConfinedToItem ==
  \A g \in BagToSet(graders) :
    g.pc = "return" =>
      /\ g.todo = {} /\ g.cur = 0
      /\ g.graded > 0 => g.error # "grade"

\* C18: every write of a ticker's active Weights comes with a ParameterDelta
\* row, the first write for a ticker included: whenever no save is between
\* its delta insert and its row update, the number of delta rows equals the
\* number of writes of weights.
RECURSIVE weightWrites(_)
weightWrites(rows) ==
  IF rows = <<>> THEN 0 ELSE Head(rows).writes + weightWrites(Tail(rows))

C18_DeltaPerWeightChange ==
  (\A g \in BagToSet(graders) : g.pc # "saveUpdate") => deltas = weightWrites(parameters)

\* C19: in every reachable state there is at most one active parameter row
\* per ticker, also when two saveAlphaGenes calls run at the same time and
\* both find no row.  (Every row here is an active row of SPY.)
C19_OneActiveRowPerTicker == Len(parameters) <= 1

\* The step takes a grading run to state g.
Reaches(g) == CopiesIn(g, graders') > CopiesIn(g, graders)

\* The step is one at which a run's optimizer fails.
OptimizerFails ==
  \E g \in BagToSet(graders') : g.error \in {"evolve", "save"} /\ Reaches(g)

\* The step is the last one of a run that has not failed.
RunEndsUnfailed ==
  \E g \in BagToSet(graders') : g.pc = "return" /\ g.error = NULL /\ Reaches(g)

\* C20: if a step of the optimizer run triggered by the grader fails, in
\* evolve() or while saving, the active Weights are exactly as before the
\* run, and gradeOpenTrades returns normally.
\* Other grading runs may write in the meantime, so "as before" is said of
\* the run's own steps: the step at which it fails writes no Weights, a run
\* that has failed is at its return, and a step that writes Weights is the
\* last one of a run that has not failed.
C20_FailedOptimizerLeavesWeights ==
  /\ [](\A g \in BagToSet(graders) : g.error \in {"evolve", "save"} => g.pc = "return")
  /\ [][/\ OptimizerFails => parameters' = parameters
        /\ parameters' # parameters => RunEndsUnfailed]_vars

\* C20's case: the save of a second evolution failed while a row existed.
C20_SaveFailedOverExistingRow ==
  \E g \in BagToSet(graders) :
    g.pc = "return" /\ g.error = "save" /\ g.existing # 0 /\ parameters # <<>>

----------------------------------------------------------------------------
(* The Fuser's scoring call: parallax.ts getWeightsFromPraxis with its      *)
(* cache, paper_trade.ts getActiveGenes, and calculateConfidence.  Weights   *)
(* and component scores are hundredths.                                      *)

REFRESH_INTERVAL_MS == REFRESH_INTERVAL_S * 1000

\* confidenceComponents as generateTPOMITPrediction fills them (163-188), in
\* the order tpo, rsi, ib, cvd, vwap; 0 stands for a component left undefined.
Components == {<<70, 80, 75, 65, 60>>, <<70, 50, 40, 50, 40>>, <<30, 50, 0, 0, 0>>}

\* A config that lacks the five weight fields: every genes.xWeight read at
\* 86-90 is undefined.
NoWeights == <<>>

\* paper_trade.ts 393-409 getActiveGenes: the config of the latest active
\* row, cast to StrategyGenes as it is, else DEFAULT_GENES.  writes tells
\* which write of the row the config comes from (0: no row).
activeGenes ==
  IF parameters = <<>> THEN [weights |-> DEFAULT_WEIGHTS, writes |-> 0]
  ELSE [weights |-> parameters[Len(parameters)].weights,
        writes |-> parameters[Len(parameters)].writes]

\* parallax.ts 103-129 calculateConfidence, as the exact fraction num / den
\* of a percentage.  With undefined weights every product and the weight sum
\* are NaN, `weightSum > 0` is false and the result is 50.
calculateConfidence(components, weights) ==
  LET used == {i \in 1..5 : components[i] # 0}
      total == IF weights = NoWeights THEN 0
               ELSE Sum5([i \in 1..5 |-> IF i \in used THEN components[i] * weights[i] ELSE 0])
      weightSum == IF weights = NoWeights THEN 0
                   ELSE Sum5([i \in 1..5 |-> IF i \in used THEN weights[i] ELSE 0])
  IN  IF weights # NoWeights /\ weightSum > 0
      THEN [num |-> total, den |-> weightSum]
      ELSE [num |-> 50, den |-> 1]

\* The wall clock advances by one timer interval.
ClockTick ==
  /\ clock < MaxTicks * REFRESH_INTERVAL_MS
  /\ clock' = clock + REFRESH_INTERVAL_MS
  /\ UNCHANGED <<TRADIER_SANDBOX_TOKEN, faults, evolveRun, genesCache, fuserCalls,
                 daemonVars, today, storeVars, cycles, graders, expirers, pureVars>>

notCache ==
  <<TRADIER_SANDBOX_TOKEN, faults, evolveRun, daemonVars, today, storeVars, cycles,
    graders, expirers, pureVars>>

\* parallax.ts 151, 78-81, 94-100: generateTPOMITPrediction calls
\* getWeightsFromPraxis; now is read, and a cache entry not older than
\* GENES_REFRESH_INTERVAL is returned as it is.
FuserCall ==
  /\ BagCardinality(fuserCalls) < MaxFuserCalls
  /\ \E components \in Components :
       LET call == [pc |-> "read", now |-> clock, components |-> components,
                    weights |-> NoWeights, writes |-> 0,
                    confidence |-> [num |-> 0, den |-> 1]]
       IN  fuserCalls' = fuserCalls (+) One(
             IF genesCache = NoCache \/ clock - genesCache.lastRefresh > GENES_REFRESH_INTERVAL
             THEN call
             ELSE [call EXCEPT !.pc = "score", !.weights = genesCache.weights,
                               !.writes = genesCache.writes])
  /\ UNCHANGED <<notCache, clock, genesCache>>

\* parallax.ts 82 with paper_trade.ts 395-409: the select of getActiveGenes.
FuserRead ==
  \E c \in BagToSet(fuserCalls) :
    /\ c.pc = "read"
    /\ fuserCalls' = Replace(fuserCalls, c,
                       [c EXCEPT !.pc = "refresh", !.weights = activeGenes.weights,
                                 !.writes = activeGenes.writes])
    /\ UNCHANGED <<notCache, clock, genesCache>>

\* parallax.ts 83-91: the entry is set with the `now` read before the await.
FuserRefresh ==
  \E c \in BagToSet(fuserCalls) :
    /\ c.pc = "refresh"
    /\ genesCache' = [weights |-> c.weights, writes |-> c.writes, lastRefresh |-> c.now]
    /\ fuserCalls' = Replace(fuserCalls, c, [c EXCEPT !.pc = "score"])
    /\ UNCHANGED <<notCache, clock>>

\* parallax.ts 190: confidence = calculateConfidence(components, weights)
FuserScore ==
  \E c \in BagToSet(fuserCalls) :
    /\ c.pc = "score"
    /\ fuserCalls' = Replace(fuserCalls, c,
                       [c EXCEPT !.pc = "scored",
                                 !.confidence = calculateConfidence(c.components, c.weights)])
    /\ UNCHANGED <<notCache, clock, genesCache>>

\* parallax.ts 192-239: the engine returns.
FuserReturn ==
  \E c \in BagToSet(fuserCalls) :
    /\ c.pc = "scored"
    /\ fuserCalls' = fuserCalls (-) One(c)
    /\ UNCHANGED <<notCache, clock, genesCache>>

\* A row whose config lacks the weight fields.
CorruptRow ==
  [id |-> 1, minConfidence |-> DEFAULT_MIN_CONFIDENCE, weights |-> NoWeights,
   writes |-> 1, lastUpdated |-> 0]

\* The scoring calls of the cycles, 30 s apart, next to one grading run
\* whose batch lost and which saves new weights.  SPY has no parameter row,
\* a well-formed one, or a corrupt one.
InitCache ==
  /\ isRunning = FALSE /\ intervalId = NULL /\ liveTimers = 0 /\ sec = 0 /\ today = 0
  /\ predictions = <<>> /\ scoredFloor = <<>>
  /\ outcomes = [p \in 1..MaxPreds |-> 0]
  /\ parameters \in {<<>>, <<CorruptRow>>, <<[CorruptRow EXCEPT !.weights = DEFAULT_WEIGHTS]>>}
  /\ deltas = 0
  /\ cycles = EmptyBag /\ expirers = EmptyBag
  /\ graders = One([gradeOpenTrades EXCEPT !.pc = "loop", !.graded = 1])
  /\ TRADIER_SANDBOX_TOKEN = TRUE
  /\ faults = 0
  /\ evolveRun = EvolveIdle
  /\ LibIdle({"cache"})
  /\ CacheIdle

NextCache ==
  \/ ClockTick \/ FuserCall \/ FuserRead \/ FuserRefresh \/ FuserScore \/ FuserReturn
  \/ GraderFinish \/ SaveSelect \/ SaveDelta \/ SaveUpdate \/ SaveInsert \/ GraderReturn

SpecCache == InitCache /\ [][NextCache]_vars

----------------------------------------------------------------------------
(* One turn of the grader's loop with its arithmetic, reconcile.ts 42-110.  *)
(* Prices and premiums are whole cents; 0 stands for a null column.         *)

\* reconcile.ts 72: estimatedDelta, in hundredths
estimatedDelta(direction) == IF direction = "CALL" THEN 50 ELSE 0 - 50

abs(x) == IF x < 0 THEN 0 - x ELSE x

\* reconcile.ts 73-75.  The moves drawn are even numbers of cents, so the
\* half is exact.
currentPremiumOf(pred, currentPrice) ==
  LET underlyingMove == currentPrice - pred.entryPrice
      estimatedPremiumChange == (underlyingMove * abs(estimatedDelta(pred.direction))) \div 100
  IN  Max({1, pred.entryTrigger + estimatedPremiumChange})

\* The rule of 81-89 with a flat trade counted as a win.
isWinOrFlat(currentPremium, targetPremium, stopPremium, pnl) ==
  IF currentPremium >= targetPremium THEN TRUE
  ELSE IF currentPremium <= stopPremium THEN FALSE
  ELSE pnl >= 0

\* reconcile.ts 81-89
isWin(currentPremium, targetPremium, stopPremium, pnl) ==
  IF currentPremium >= targetPremium THEN TRUE
  ELSE IF currentPremium <= stopPremium THEN FALSE
  ELSE pnl > 0

\* ACTIVE predictions the loop may meet and the close of the last candle:
\* the underlying at 500.00 when predicted, the premium plan 2.00 / stop /
\* target, or no entry premium stored.  A ticker without a stored candle
\* has hasCandle FALSE.
GradingInputs ==
  {[pc |-> "loop",
    pred |-> [direction |-> d, entryPrice |-> 50000, entryTrigger |-> e,
              stopLoss |-> st, takeProfit |-> t, status |-> "ACTIVE"],
    hasCandle |-> c[1], close |-> c[2], currentPremium |-> 0, pnl |-> 0,
    result |-> NULL] :
     d \in Directions, e \in {0, 200}, st \in {100, 150}, t \in {250, 400},
     c \in {<<FALSE, 0>>} \cup
           {<<TRUE, x>> : x \in {49600, 49800, 49900, 50000, 50100, 50200, 50400}}}

notGrading == <<systemVars, planning, profile, sessionCall, backtest, orbCall, fuse, reservoir, auth>>

\* reconcile.ts 45-52, 56-66: no entry premium stored or no candle of the
\* ticker, continue
GradeSkip ==
  /\ grading.pc = "loop"
  /\ grading.pred.entryTrigger <= 0 \/ ~grading.hasCandle
  /\ grading' = [grading EXCEPT !.pc = "skipped"]
  /\ UNCHANGED notGrading

\* reconcile.ts 56-96: the last candle, the estimate, the verdict and the
\* Outcome row
GradeOutcome ==
  /\ grading.pc = "loop"
  /\ grading.pred.entryTrigger > 0 /\ grading.hasCandle
  /\ LET currentPremium == currentPremiumOf(grading.pred, grading.close)
         pnl == currentPremium - grading.pred.entryTrigger
     IN  grading' = [grading EXCEPT
                       !.pc = "update", !.currentPremium = currentPremium, !.pnl = pnl,
                       !.result = IF isWin(currentPremium, grading.pred.takeProfit,
                                           grading.pred.stopLoss, pnl)
                                  THEN "WIN" ELSE "LOSS"]
  /\ UNCHANGED notGrading

\* A grader that closes a prediction only once its premium has reached the
\* stop or the target.
statusAtLevels(currentPremium, targetPremium, stopPremium) ==
  IF currentPremium >= targetPremium \/ currentPremium <= stopPremium
  THEN "CLOSED" ELSE "ACTIVE"

\* reconcile.ts 98-101: .set({ status: "CLOSED" }) whatever the premium
statusAfterGrade(currentPremium, targetPremium, stopPremium) == "CLOSED"

\* reconcile.ts 98-110: status CLOSED, results.graded++
GradeClose ==
  /\ grading.pc = "update"
  /\ grading' = [grading EXCEPT
                   !.pc = "graded",
                   !.pred.status = statusAfterGrade(grading.currentPremium,
                                                    grading.pred.takeProfit,
                                                    grading.pred.stopLoss)]
  /\ UNCHANGED notGrading

InitGrade == SystemIdle /\ grading \in GradingInputs /\ LibIdle({"grading"})

NextGrade == GradeSkip \/ GradeOutcome \/ GradeClose

SpecGrade == InitGrade /\ [][NextGrade]_vars

----------------------------------------------------------------------------
(* The trade plan of a candidate on its way to the store, daemon.ts 151-213  *)
(* with math/options_risk.ts.  Amounts are whole cents, delta is hundredths; *)
(* `levels` tells what the three numbers of the plan are: prices of the      *)
(* underlying, as the engines compute them, or premiums of the contract.     *)

\* options_risk.ts 80-85 getMidPrice; the quotes drawn have an even sum.
getMidPrice(bid, ask) ==
  IF bid <= 0 /\ ask <= 0 THEN 0
  ELSE IF bid <= 0 THEN ask
  ELSE IF ask <= 0 THEN bid
  ELSE (bid + ask) \div 2

\* Number(x.toFixed(2)) of an amount given in hundredths of a cent
toCents(amount) == (amount + 50) \div 100

\* risk > 0 ? reward / risk : 0, in hundredths to the nearest hundredth
ratio(reward, risk) == IF risk > 0 THEN (200 * reward + risk) \div (2 * risk) ELSE 0

\* The projection without the floor of 0.05 under stop and target.
calculateUnclamped(currentOptionAsk, stockLevels, delta) ==
  LET estimatedStop ==
        currentOptionAsk * 100 - abs(stockLevels.stop - stockLevels.entry) * abs(delta)
      estimatedTarget ==
        currentOptionAsk * 100 + abs(stockLevels.target - stockLevels.entry) * abs(delta)
  IN  [entry |-> currentOptionAsk,
       stop |-> toCents(estimatedStop),
       target |-> toCents(estimatedTarget),
       riskReward |-> ratio(estimatedTarget - currentOptionAsk * 100,
                            currentOptionAsk * 100 - estimatedStop),
       levels |-> "premium"]

\* options_risk.ts 38-77 OptionsRiskCalculator.calculate; the estimates are
\* hundredths of a cent
calculate(currentOptionAsk, stockLevels, delta) ==
  LET distToStop == stockLevels.stop - stockLevels.entry
      distToTarget == stockLevels.target - stockLevels.entry
      absDelta == abs(delta)
      stopLossDrop == abs(distToStop) * absDelta
      targetGain == abs(distToTarget) * absDelta
      estimatedStop == Max({500, currentOptionAsk * 100 - stopLossDrop})
      estimatedTarget == Max({500, currentOptionAsk * 100 + targetGain})
      risk == currentOptionAsk * 100 - estimatedStop
      reward == estimatedTarget - currentOptionAsk * 100
  IN  [entry |-> currentOptionAsk,
       stop |-> toCents(estimatedStop),
       target |-> toCents(estimatedTarget),
       riskReward |-> ratio(reward, risk),
       levels |-> "premium"]

\* The profiles of the candidates: POC, VAH and VAL around an underlying at
\* 500.00.
Profiles ==
  {[poc |-> c, vah |-> 50200, val |-> 49800] : c \in {49900, 50100}} \cup
  {[poc |-> c, vah |-> 50050, val |-> 49950] : c \in {49800, 50200}}

\* part_008 124-157 RiskCalculator.fromTPO with the underlying at 500.00
fromTPO(tpoProfile, direction, atr) ==
  IF direction = "PUT"
  THEN [entry |-> 50000, stop |-> tpoProfile.vah + atr, target |-> tpoProfile.poc,
        riskReward |-> ratio(50000 - tpoProfile.poc, tpoProfile.vah + atr - 50000),
        levels |-> "underlying"]
  ELSE [entry |-> 50000, stop |-> tpoProfile.val - atr, target |-> tpoProfile.poc,
        riskReward |-> ratio(tpoProfile.poc - 50000, 50000 - (tpoProfile.val - atr)),
        levels |-> "underlying"]

\* reservoir.ts fetch0DTEExpiration / fetchOptionChain and the find at
\* daemon.ts 159-161: no contract at the strike (bid 0 and no greeks stand
\* for it), a contract without a bid, with a bid only, with bid and greeks.
\* The delta of the chain is negative for a put.
Contracts ==
  {[found |-> f, bid |-> q[1], ask |-> q[2], greeks |-> g, delta |-> d] :
     f \in BOOLEAN, q \in {<<0, 20>>, <<2, 4>>, <<20, 40>>, <<110, 130>>},
     g \in BOOLEAN, d \in {32, 50, 0 - 50}}

PlanningInputs ==
  {[pc |-> "expiration", direction |-> d, stockLevels |-> fromTPO(tpoProfile, d, atr),
    plan |-> fromTPO(tpoProfile, d, atr), entryPrice |-> 50000, expiration |-> NULL,
    contract |-> c, stored |-> FALSE] :
     d \in Directions, tpoProfile \in Profiles, atr \in {50, 100}, c \in Contracts}

notPlanning == <<systemVars, grading, profile, sessionCall, backtest, orbCall, fuse, reservoir, auth>>

\* daemon.ts 153-154: the 0DTE expiration, or none
PlanExpiration ==
  /\ planning.pc = "expiration"
  /\ \E expiration \in {NULL, "today"} :
       planning' = [planning EXCEPT !.expiration = expiration,
                                    !.pc = IF expiration = NULL THEN "store" ELSE "chain"]
  /\ UNCHANGED notPlanning

\* daemon.ts 155-208: the contract at the strike; with bid and greeks the
\* delta projection, with a bid only the percentage plan, else a log line.
PlanChain ==
  /\ planning.pc = "chain"
  /\ LET contract == planning.contract
         premium == getMidPrice(contract.bid, contract.ask)
     IN  planning' =
           IF contract.found /\ contract.bid > 0 /\ contract.greeks
           THEN [planning EXCEPT !.pc = "store",
                                 !.plan = calculate(premium, planning.plan,
                                                    abs(contract.delta)),
                                 !.entryPrice = calculate(premium, planning.plan,
                                                          abs(contract.delta)).entry]
           ELSE IF contract.found /\ contract.bid > 0
           THEN [planning EXCEPT !.pc = "store",
                                 !.plan = [entry |-> premium,
                                           stop |-> toCents(premium * 50),
                                           target |-> toCents(premium * 200),
                                           riskReward |-> 200, levels |-> "premium"],
                                 !.entryPrice = premium]
           ELSE [planning EXCEPT !.pc = "store"]
  /\ UNCHANGED notPlanning

\* daemon.ts 211: storePrediction(prediction)
PlanStore ==
  /\ planning.pc = "store"
  /\ planning' = [planning EXCEPT !.pc = "stored", !.stored = TRUE]
  /\ UNCHANGED notPlanning

InitPlan == SystemIdle /\ planning \in PlanningInputs /\ LibIdle({"planning"})

NextPlan == PlanExpiration \/ PlanChain \/ PlanStore

SpecPlan == InitPlan /\ [][NextPlan]_vars

----------------------------------------------------------------------------
(* buildTPOProfile, part_009 622-723.  Prices are whole cents, the tick is   *)
(* 0.25; volumes are multiples of 12, so that the share of a tick is whole.  *)
(* The impulse, which reads only the first open and the last close, is left  *)
(* out.                                                                      *)

\* part_009 618-620 roundToTick: Math.round(price / tickSize) * tickSize
roundToTick(price) == ((2 * price + TICK_SIZE) \div (2 * TICK_SIZE)) * TICK_SIZE

\* Candles the feed may deliver: low <= high, prices on and off the tick grid.
Candles ==
  {[low |-> c[1], high |-> c[2], volume |-> v] :
     c \in {<<50000, 50010>>, <<50000, 50050>>, <<50000, 50075>>, <<50013, 50050>>,
            <<50013, 50075>>, <<50050, 50050>>, <<50050, 50075>>},
     v \in {0, 1200, 2400}}

\* part_009 639-647: the ticks a candle covers and the volume each gets
ticksOf(candle) ==
  {p \in roundToTick(candle.low)..roundToTick(candle.high) : p % TICK_SIZE = 0}

volumePerTick(candle) ==
  candle.volume \div
    Max({1, (roundToTick(candle.high) - roundToTick(candle.low)) \div TICK_SIZE + 1})

RECURSIVE volumeAt(_, _)
volumeAt(candles, price) ==
  IF candles = <<>> THEN 0
  ELSE (IF price \in ticksOf(Head(candles)) THEN volumePerTick(Head(candles)) ELSE 0)
         + volumeAt(Tail(candles), price)

\* part_009 656-658: the keys of volumeByPrice in ascending order
RECURSIVE sorted(_)
sorted(prices) ==
  IF prices = {} THEN <<>> ELSE <<Min(prices)>> \o sorted(prices \ {Min(prices)})

RECURSIVE sumOver(_, _)
sumOver(volumeByPrice, prices) ==
  IF prices = {} THEN 0
  ELSE volumeByPrice[Min(prices)] + sumOver(volumeByPrice, prices \ {Min(prices)})

\* The value area counted as full at one half of the volume.
reachedHalf(currentVolume, totalVolume) == currentVolume * 100 >= totalVolume * 50

\* part_009 670, 677: currentVolume < targetVolume is false
reachedTarget(currentVolume, totalVolume) ==
  currentVolume * 100 >= totalVolume * VALUE_AREA_PERCENT

\* part_009 661-668: the first price with the largest volume, the lowest
\* price when every volume is 0
pocOf(volumeByPrice, pricesSorted) ==
  LET best == Max({volumeByPrice[p] : p \in DOMAIN volumeByPrice})
  IN  IF best = 0 THEN pricesSorted[1]
      ELSE Min({p \in DOMAIN volumeByPrice : volumeByPrice[p] = best})

ProfileInputs ==
  {[pc |-> "histogram", candles |-> w, volumeByPrice |-> <<>>, pricesSorted |-> <<>>,
    totalVolume |-> 0, poc |-> 0, currentVolume |-> 0, lowIndex |-> 0, highIndex |-> 0,
    val |-> 0, vah |-> 0] :
     w \in UNION {[1..n -> Candles] : n \in 1..MaxCandles}}

notProfile == <<systemVars, grading, planning, sessionCall, backtest, orbCall, fuse, reservoir, auth>>

\* part_009 634-674: the histogram, the sorted prices, the POC and the start
\* of the value area
ProfileHistogram ==
  /\ profile.pc = "histogram"
  /\ LET prices == UNION {ticksOf(profile.candles[i]) : i \in 1..Len(profile.candles)}
         volumeByPrice == [p \in prices |-> volumeAt(profile.candles, p)]
         pricesSorted == sorted(prices)
         poc == pocOf(volumeByPrice, pricesSorted)
         pocIndex == CHOOSE i \in 1..Len(pricesSorted) : pricesSorted[i] = poc
     IN  profile' = [profile EXCEPT
                       !.pc = "expand", !.volumeByPrice = volumeByPrice,
                       !.pricesSorted = pricesSorted,
                       !.totalVolume = sumOver(volumeByPrice, prices),
                       !.poc = poc, !.currentVolume = volumeByPrice[poc],
                       !.lowIndex = pocIndex, !.highIndex = pocIndex]
  /\ UNCHANGED notProfile

\* part_009 677-693: one turn of the while loop
ProfileExpand ==
  /\ profile.pc = "expand"
  /\ ~reachedTarget(profile.currentVolume, profile.totalVolume)
  /\ profile.lowIndex > 1 \/ profile.highIndex < Len(profile.pricesSorted)
  /\ LET lowCandidate == IF profile.lowIndex > 1
                         THEN profile.volumeByPrice[profile.pricesSorted[profile.lowIndex - 1]]
                         ELSE 0
         highCandidate == IF profile.highIndex < Len(profile.pricesSorted)
                          THEN profile.volumeByPrice[profile.pricesSorted[profile.highIndex + 1]]
                          ELSE 0
     IN  profile' =
           IF lowCandidate >= highCandidate /\ profile.lowIndex > 1
           THEN [profile EXCEPT !.lowIndex = @ - 1, !.currentVolume = @ + lowCandidate]
           ELSE IF profile.highIndex < Len(profile.pricesSorted)
           THEN [profile EXCEPT !.highIndex = @ + 1, !.currentVolume = @ + highCandidate]
           ELSE [profile EXCEPT !.lowIndex = @ - 1, !.currentVolume = @ + lowCandidate]
  /\ UNCHANGED notProfile

\* part_009 695-722: val, vah and the returned profile
ProfileReturn ==
  /\ profile.pc = "expand"
  /\ \/ reachedTarget(profile.currentVolume, profile.totalVolume)
     \/ ~(profile.lowIndex > 1 \/ profile.highIndex < Len(profile.pricesSorted))
  /\ profile' = [profile EXCEPT
                   !.pc = "done",
                   !.poc = roundToTick(profile.poc),
                   !.val = roundToTick(profile.pricesSorted[profile.lowIndex]),
                   !.vah = roundToTick(profile.pricesSorted[profile.highIndex])]
  /\ UNCHANGED notProfile

InitProfile == SystemIdle /\ profile \in ProfileInputs /\ LibIdle({"profile"})

NextProfile == ProfileHistogram \/ ProfileExpand \/ ProfileReturn

SpecProfile == InitProfile /\ [][NextProfile]_vars

----------------------------------------------------------------------------
(* MarketTime.getSession, time.ts 19-45.  The call reads the local date-time *)
(* (weekday 1..7, minute of the day) and looks the date up in the holiday    *)
(* and half-day sets; these four values are its inputs.                      *)

\* time.ts 23-44 with the close at closeTime
sessionAt(weekday, holiday, closeTime, totalMinutes) ==
  IF weekday > 5 THEN "CLOSED_WEEKEND"
  ELSE IF holiday THEN "CLOSED_HOLIDAY"
  ELSE IF totalMinutes >= closeTime \/ totalMinutes < 240 THEN "CLOSED"
  ELSE IF totalMinutes >= 240 /\ totalMinutes < 570 THEN "PRE_MARKET"
  ELSE IF totalMinutes >= 570 /\ totalMinutes < Min({600, closeTime}) THEN "OPENING_RANGE"
  ELSE IF totalMinutes >= 600 /\ totalMinutes < Min({720, closeTime}) THEN "MORNING"
  ELSE IF totalMinutes >= 720 /\ totalMinutes < Min({780, closeTime}) THEN "AFTERNOON"
  ELSE IF totalMinutes >= 780 /\ totalMinutes < closeTime THEN "POWER_HOUR"
  ELSE IF totalMinutes >= 570 /\ totalMinutes < closeTime THEN "OPEN"
  ELSE "CLOSED"

\* The session of a day that closes at 16:00 whether it is a half day or not.
getSessionRegularClose(weekday, holiday, halfDay, totalMinutes) ==
  sessionAt(weekday, holiday, 960, totalMinutes)

\* time.ts 27: closeTime = halfDays.has(dateStr) ? 780 : 960
getSession(weekday, holiday, halfDay, totalMinutes) ==
  sessionAt(weekday, holiday, IF halfDay THEN 780 ELSE 960, totalMinutes)

SessionInputs ==
  {[pc |-> "call", weekday |-> w, holiday |-> h, halfDay |-> d, totalMinutes |-> m,
    result |-> NULL] :
     w \in 1..7, h \in BOOLEAN, d \in BOOLEAN, m \in 0..1439}

notSession == <<systemVars, grading, planning, profile, backtest, orbCall, fuse, reservoir, auth>>

SessionReturn ==
  /\ sessionCall.pc = "call"
  /\ sessionCall' = [sessionCall EXCEPT
                       !.pc = "done",
                       !.result = getSession(sessionCall.weekday, sessionCall.holiday,
                                             sessionCall.halfDay, sessionCall.totalMinutes)]
  /\ UNCHANGED notSession

InitSession == SystemIdle /\ sessionCall \in SessionInputs /\ LibIdle({"sessionCall"})

NextSession == SessionReturn

SpecSession == InitSession /\ [][NextSession]_vars

----------------------------------------------------------------------------
(* runHistoricalBacktest, part_004 43-195.  A history is the number of its   *)
(* candles and, for each window the loop visits, what the window's candles   *)
(* yield: whether buildTPOProfile returns a profile, the bias of             *)
(* getTPOSignal and the signal of getRSISignal.  The exit price of a trade   *)
(* decides its pnl, not whether it is counted, and is left out.  Weights are *)
(* hundredths.  The replay is run twice on the same history and weights,     *)
(* first with the smaller and then with the larger minConfidence.            *)

NoProfile == [profile |-> FALSE, bias |-> "NEUTRAL", rsi |-> "NEUTRAL"]

WindowSignals ==
  {NoProfile} \cup
  {[profile |-> TRUE, bias |-> b, rsi |-> r] :
     b \in {"LONG", "SHORT", "NEUTRAL"}, r \in {"OVERSOLD", "OVERBOUGHT", "NEUTRAL"}}

\* part_004 78: for (let i = windowSize; i < candles.length - 10; i += 10)
windowStarts(length) == {i \in 30..(length - 11) : i % 10 = 0}

Histories ==
  {[length |-> 59, signals |-> <<>>]} \cup
  UNION {{[length |-> n, signals |-> f] : f \in [windowStarts(n) -> WindowSignals]} :
           n \in {50 + 10 * d : d \in 1..MaxDecades}}

\* part_004 98-115, times 100
confidenceOf(signal, genes) ==
  5000 + (IF signal.bias \in {"LONG", "SHORT"} THEN 20 * genes.tpoWeight ELSE 0)
       + (IF signal.rsi \in {"OVERSOLD", "OVERBOUGHT"} THEN 20 * genes.rsiWeight ELSE 0)

\* part_004 99-115
directionOf(signal) ==
  IF signal.bias = "LONG" THEN "CALL"
  ELSE IF signal.bias = "SHORT" THEN "PUT"
  ELSE IF signal.rsi = "OVERSOLD" THEN "CALL"
  ELSE IF signal.rsi = "OVERBOUGHT" THEN "PUT"
  ELSE NULL

\* A floor that rejects the confident windows.
aboveFloor(confidence, minConfidence) == confidence > minConfidence * 100

\* part_004 117: confidence < genes.minConfidence
belowFloor(confidence, minConfidence) == confidence < minConfidence * 100

BacktestInputs ==
  {[pc |-> "load", history |-> h, genes |-> [tpoWeight |-> t, rsiWeight |-> 20],
    minConfidences |-> m, run |-> 1, i |-> 0, trades |-> <<>>, reports |-> <<>>,
    rows |-> <<>>] :
     h \in Histories, t \in {25, 40},
     m \in {<<55, 58>>, <<55, 60>>, <<58, 60>>}}

notBacktest == <<systemVars, grading, planning, profile, sessionCall, orbCall, fuse,
                reservoir, auth>>

\* part_004 51-76: the candles are read; fewer than 60 end the run with no
\* trades and no row
BacktestLoad ==
  /\ backtest.pc = "load"
  /\ backtest' =
       IF backtest.history.length < 60
       THEN [backtest EXCEPT !.pc = "return", !.reports = Append(@, 0)]
       ELSE [backtest EXCEPT !.pc = "replay", !.i = 30, !.trades = <<>>]
  /\ UNCHANGED notBacktest

\* part_004 78-153: one window of the loop
BacktestWindow ==
  /\ backtest.pc = "replay"
  /\ backtest.i < backtest.history.length - 10
  /\ LET signal == backtest.history.signals[backtest.i]
         confidence == confidenceOf(signal, backtest.genes)
         direction == directionOf(signal)
         skipped == \/ ~signal.profile
                    \/ belowFloor(confidence, backtest.minConfidences[backtest.run])
                    \/ direction = NULL
     IN  backtest' = [backtest EXCEPT
                        !.i = @ + 10,
                        !.trades = IF skipped THEN @ ELSE Append(@, direction)]
  /\ UNCHANGED notBacktest

\* part_004 155-190: the result is built and its row inserted
BacktestInsert ==
  /\ backtest.pc = "replay"
  /\ ~(backtest.i < backtest.history.length - 10)
  /\ backtest' = [backtest EXCEPT
                    !.pc = "return",
                    !.reports = Append(@, Len(backtest.trades)),
                    !.rows = Append(@, Len(backtest.trades))]
  /\ UNCHANGED notBacktest

\* part_004 194: the result is returned; the second replay of the same
\* history follows the first
BacktestReturn ==
  /\ backtest.pc = "return"
  /\ backtest' = IF backtest.run = 1
                 THEN [backtest EXCEPT !.pc = "load", !.run = 2]
                 ELSE [backtest EXCEPT !.pc = "done"]
  /\ UNCHANGED notBacktest

InitBacktest == SystemIdle /\ backtest \in BacktestInputs /\ LibIdle({"backtest"})

NextBacktest == BacktestLoad \/ BacktestWindow \/ BacktestInsert \/ BacktestReturn

SpecBacktest == InitBacktest /\ [][NextBacktest]_vars

----------------------------------------------------------------------------
(* The trading branch of runPredictionCycle for one ticker, daemon.ts        *)
(* 78-139, with generateORBPrediction, parallax.ts 285-353, and              *)
(* calculateORB, part_009 240-272.  Time is the minute of a regular trading  *)
(* day; it passes while the cycle awaits.  The feed delivers one candle per  *)
(* minute since 09:30, but for the minutes without a trade; every candle     *)
(* spans 500.00 to 501.00, or, in a session without movement, is flat at     *)
(* 500.00.  Whether generateTPOMITPrediction finds a signal is an input.     *)

\* reservoir.ts 159-177: the candles of the session so far
Feed(now, missing, flat) ==
  LET minutes == sorted((570..(now - 1)) \ missing)
  IN  [k \in 1..Len(minutes) |->
         [timestamp |-> minutes[k], high |-> IF flat THEN 50000 ELSE 50100, low |-> 50000]]

\* Array.prototype.slice(0, n)
slice(candles, n) == SubSeq(candles, 1, Min({n, Len(candles)}))

InRange(c) == c.timestamp >= 570 /\ c.timestamp < 570 + 30

\* parallax.ts 298-301
orbCandlesOf(candles) == SelectSeq(candles, InRange)

\* part_009 240-272; the ranges of the feed are even numbers of cents, so
\* that rangeSize / 2 is whole
calculateORB(candles) ==
  IF candles = <<>> THEN NULL
  ELSE LET rangeHigh == Max({candles[k].high : k \in 1..Len(candles)})
           rangeLow == Min({candles[k].low : k \in 1..Len(candles)})
           rangeSize == rangeHigh - rangeLow
           midPoint == rangeLow + rangeSize \div 2
       IN  [high |-> rangeHigh, low |-> rangeLow, mid |-> midPoint,
            rangeSize |-> rangeSize,
            targetBull1 |-> rangeHigh + rangeSize, stopLossLong |-> midPoint,
            targetBear1 |-> rangeLow - rangeSize, stopLossShort |-> midPoint]

\* parallax.ts 308-320: the direction of the breakout
breakoutDirection(orbLevels, currentPrice) ==
  IF currentPrice > orbLevels.high THEN "CALL"
  ELSE IF currentPrice < orbLevels.low THEN "PUT"
  ELSE NULL

\* parallax.ts 309-320: confidence = 55 + min(20, 40 * strength), as the
\* fraction num / den with den the size of the range; over a range of size 0
\* the strength is Infinity and the confidence 55 + 20
breakoutConfidence(orbLevels, currentPrice) ==
  LET distance == IF currentPrice > orbLevels.high THEN currentPrice - orbLevels.high
                  ELSE IF currentPrice < orbLevels.low THEN orbLevels.low - currentPrice
                  ELSE 0
  IN  [num |-> 55 * orbLevels.rangeSize + Min({20 * orbLevels.rangeSize, 40 * distance}),
       den |-> orbLevels.rangeSize]

\* parallax.ts 285-353 generateORBPrediction on the candles, the price and
\* the time of the call
generateORBPredictionAt(candles, currentPrice, now) ==
  IF now < 570 + 30 THEN NoPrediction
  ELSE LET orbCandles == orbCandlesOf(candles)
       IN  IF Len(orbCandles) < 5 THEN NoPrediction
           ELSE LET orbLevels == calculateORB(orbCandles)
                    direction == breakoutDirection(orbLevels, currentPrice)
                    confidence == breakoutConfidence(orbLevels, currentPrice)
                IN  IF direction = NULL \/ confidence.num < 60 * confidence.den
                    THEN NoPrediction
                    ELSE [direction |-> direction, engine |-> "ORB_MOMENTUM",
                          confidence |-> IF confidence.den = 0 THEN 55 + 20
                                         ELSE confidence.num \div confidence.den]

OrbInputs ==
  {[pc |-> "start", now |-> n, delay |-> 0, missing |-> g, flat |-> f,
    currentPrice |-> p, session |-> NULL, candles |-> <<>>, tpoSilent |-> FALSE,
    orbLevels |-> <<>>, prediction |-> NoPrediction] :
     n \in {585, 598, 599, 600, 615},
     g \in {{}, {580}, {580, 581}},
     f \in BOOLEAN,
     p \in {49800, 49875, 50050, 50110, 50125, 50200}}

notOrb == <<systemVars, grading, planning, profile, sessionCall, backtest, fuse, reservoir, auth>>

\* A minute passes while the cycle awaits a fetch or the Fuser's weights.
OrbTick ==
  /\ orbCall.pc \in {"fetch", "engines"}
  /\ orbCall.delay < MaxDelay
  /\ orbCall' = [orbCall EXCEPT !.now = @ + 1, !.delay = @ + 1]
  /\ UNCHANGED notOrb

\* daemon.ts 78-85: the session of the cycle is read once, at its start
OrbSession ==
  /\ orbCall.pc = "start"
  /\ orbCall' = [orbCall EXCEPT
                   !.pc = "fetch",
                   !.session = getSession(1, FALSE, FALSE, orbCall.now)]
  /\ UNCHANGED notOrb

\* daemon.ts 125-132, 140-142: the candles arrive; fewer than 30 end the
\* ticker's turn without a prediction
OrbFetch ==
  /\ orbCall.pc = "fetch"
  /\ LET candles == Feed(orbCall.now, orbCall.missing, orbCall.flat)
     IN  orbCall' = [orbCall EXCEPT
                       !.pc = IF Len(candles) >= 30 THEN "engines" ELSE "done",
                       !.candles = candles]
  /\ UNCHANGED notOrb

\* parallax.ts 296-307: the levels calculateORB hands to the engine, none
\* when the engine returns before it calls calculateORB
levelsAt(candles, now) ==
  IF now < 570 + 30 \/ Len(orbCandlesOf(candles)) < 5 THEN <<>>
  ELSE <<calculateORB(orbCandlesOf(candles))>>

\* daemon.ts 133-139: generateTPOMITPrediction returns, and when it found
\* nothing in a cycle that began in the opening range, generateORBPrediction
\* is called on the first 30 candles
OrbEngines ==
  /\ orbCall.pc = "engines"
  /\ \E found \in BOOLEAN :
       orbCall' = [orbCall EXCEPT
                     !.pc = "done",
                     !.tpoSilent = ~found,
                     !.orbLevels =
                        IF ~found /\ orbCall.session = "OPENING_RANGE"
                                  /\ Len(orbCall.candles) >= 30
                        THEN levelsAt(slice(orbCall.candles, 30), orbCall.now)
                        ELSE <<>>,
                     !.prediction =
                        IF found
                        THEN [direction |-> "CALL", engine |-> "TPO_MIT",
                              confidence |-> CONFIDENCE_FLOOR]
                        ELSE IF orbCall.session = "OPENING_RANGE"
                                  /\ Len(orbCall.candles) >= 30
                        THEN generateORBPredictionAt(slice(orbCall.candles, 30),
                                                     orbCall.currentPrice, orbCall.now)
                        ELSE NoPrediction]
  /\ UNCHANGED notOrb

InitOrb == SystemIdle /\ orbCall \in OrbInputs /\ LibIdle({"orbCall"})

NextOrb == OrbTick \/ OrbSession \/ OrbFetch \/ OrbEngines

SpecOrb == InitOrb /\ [][NextOrb]_vars

----------------------------------------------------------------------------
(* One call of an engine of the Fuser on one ticker, with the gate of        *)
(* runPredictionCycle behind it, daemon.ts 119-145.  Prices are whole cents, *)
(* strikes whole dollars, weights hundredths.  A TRADING call is a cycle of  *)
(* trading hours on a window of at least 30 candles with a TPO profile; the  *)
(* window is given by what the indicators of part_009 and part_010 make of   *)
(* it.  A PRE_MARKET call is a cycle before the open; a BLACK_SCHOLES call   *)
(* applies the exported engine to a bias of the caller's choice.  The window *)
(* of a TRADING call is then replayed as runHistoricalBacktest scores it.    *)

\* part_009 729-752 getTPOSignal: the bias only
getTPOSignal(currentPrice, tpoProfile) ==
  IF currentPrice > tpoProfile.vah THEN "SHORT"
  ELSE IF currentPrice < tpoProfile.val THEN "LONG"
  ELSE IF abs(currentPrice - tpoProfile.poc) * 1000 < tpoProfile.poc THEN "NEUTRAL"
  ELSE IF currentPrice > tpoProfile.poc THEN "LONG"
  ELSE "SHORT"

\* part_010 166-170 getRSISignal, behind the null test of parallax.ts 161;
\* rsi14 is <<>> for null
getRSISignal(rsi14) ==
  IF rsi14 = <<>> THEN "NEUTRAL"
  ELSE IF rsi14[1] < 30 THEN "OVERSOLD"
  ELSE IF rsi14[1] > 70 THEN "OVERBOUGHT"
  ELSE "NEUTRAL"

\* parallax.ts 163-188: the components in the order tpo, rsi, ib, cvd, vwap,
\* 0 for one left undefined
confidenceComponents(bias, rsiSignal, ib, orderFlow) ==
  <<IF bias \in {"LONG", "SHORT"} THEN 70 ELSE 30,
    IF rsiSignal \in {"OVERSOLD", "OVERBOUGHT"} THEN 80 ELSE 50,
    IF ib = "none" THEN 0 ELSE IF ib = "outside" THEN 75 ELSE 40,
    IF orderFlow = <<>> THEN 0 ELSE IF orderFlow[1].cvdDivergence THEN 65 ELSE 50,
    IF orderFlow = <<>> THEN 0 ELSE orderFlow[1].vwap>>

\* The RSI extreme decides, whatever the TPO bias.
rsiFirst(bias, rsiSignal) ==
  IF rsiSignal = "OVERSOLD" THEN "CALL"
  ELSE IF rsiSignal = "OVERBOUGHT" THEN "PUT"
  ELSE IF bias = "LONG" THEN "CALL"
  ELSE IF bias = "SHORT" THEN "PUT"
  ELSE NULL

\* parallax.ts 194-201
tpoFirst(bias, rsiSignal) ==
  IF bias = "LONG" \/ (rsiSignal = "OVERSOLD" /\ bias = "NEUTRAL") THEN "CALL"
  ELSE IF bias = "SHORT" \/ (rsiSignal = "OVERBOUGHT" /\ bias = "NEUTRAL") THEN "PUT"
  ELSE NULL

\* parallax.ts 131-140 selectStrike with tickSize 1: Math.round of the price
\* moved by 0.5 %, in dollars; the sum is in thousandths of a cent
selectStrike(currentPrice, direction) ==
  LET rawStrike == IF direction = "CALL" THEN currentPrice * 1005 ELSE currentPrice * 995
  IN  (rawStrike + 50000) \div 100000

\* A NEUTRAL bias is taken for a BULLISH one.
preMarketAlways(spotPrice, volatility, bias) ==
  [direction |-> IF bias = "BEARISH" THEN "PUT" ELSE "CALL", engine |-> "BLACK_SCHOLES",
   confidence |-> 65]

\* part_009 510-576 generatePreMarketPrediction: direction and confidence;
\* the strike is rounded up or down to half a dollar, volatility is in
\* hundredths
generatePreMarketPrediction(spotPrice, volatility, bias) ==
  IF bias \notin {"BULLISH", "BEARISH"} THEN NoPrediction
  ELSE LET direction == IF bias = "BULLISH" THEN "CALL" ELSE "PUT"
           strike == IF direction = "CALL"
                     THEN ((spotPrice * 1005 + 49999) \div 50000) * 50
                     ELSE ((spotPrice * 995) \div 50000) * 50
           \* moneyness times spotPrice
           moneyness == IF direction = "CALL" THEN spotPrice - strike
                        ELSE strike - spotPrice
           confidence == 50 + (IF moneyness * 100 > 0 - 2 * spotPrice /\ moneyness < 0
                               THEN 10 ELSE 0)
                            + (IF volatility > 30 /\ volatility < 50 THEN 5 ELSE 0)
                            + 5
       IN  [direction |-> direction, engine |-> "BLACK_SCHOLES",
            confidence |-> Min({100, Max({0, confidence})})]

\* parallax.ts 241-283 generateBlackScholesPrediction
generateBlackScholesPrediction(spotPrice, volatility, bias) ==
  LET preMarketPred == generatePreMarketPrediction(spotPrice, volatility, bias)
  IN  IF preMarketPred = NoPrediction \/ preMarketPred.confidence < 60 THEN NoPrediction
      ELSE preMarketPred

\* Windows: the price with the TPO profile of its candles
FuseWindows ==
  {[currentPrice |-> p, tpoProfile |-> [poc |-> 50000, vah |-> 50500, val |-> 49500]] :
     p \in {49000, 49900, 50020, 50100, 51000}} \cup
  {[currentPrice |-> p, tpoProfile |-> [poc |-> 5050, vah |-> 5070, val |-> 5030]] :
     p \in {5020, 5051, 5080}}

\* A call before the open or of the Black-Scholes engine: no indicators
preMarketCall(kind, window, volatility, bias) ==
  [pc |-> "call", kind |-> kind, window |-> window, rsi14 |-> <<>>, ib |-> "none",
   orderFlow |-> <<>>, weights |-> DEFAULT_WEIGHTS, minConfidence |-> 60,
   volatility |-> volatility, bias |-> bias, supplied |-> NULL,
   signal |-> [bias |-> NULL, rsi |-> NULL],
   confidence |-> [num |-> 0, den |-> 1], prediction |-> NoPrediction, strike |-> 0,
   persisted |-> FALSE, replay |-> <<>>]

FuseInputs ==
  {[pc |-> "call", kind |-> "TRADING", window |-> w, rsi14 |-> r, ib |-> i,
    orderFlow |-> o, weights |-> g, minConfidence |-> m, volatility |-> 25,
    bias |-> "NEUTRAL", supplied |-> NULL,
    signal |-> [bias |-> NULL, rsi |-> NULL],
    confidence |-> [num |-> 0, den |-> 1], prediction |-> NoPrediction, strike |-> 0,
    persisted |-> FALSE, replay |-> <<>>] :
     w \in FuseWindows, r \in {<<>>, <<25>>, <<30>>, <<50>>, <<70>>, <<75>>},
     i \in {"none", "inside", "outside"},
     o \in {<<>>, <<[cvdDivergence |-> TRUE, vwap |-> 60]>>,
            <<[cvdDivergence |-> FALSE, vwap |-> 40]>>},
     g \in {DEFAULT_WEIGHTS, <<40, 40, 10, 5, 5>>}, m \in {55, 60}}
  \cup {preMarketCall("PRE_MARKET", w, 25, "NEUTRAL") : w \in FuseWindows}
  \cup {preMarketCall("BLACK_SCHOLES", w, v, b) :
          w \in FuseWindows, v \in {25, 40}, b \in {"BULLISH", "BEARISH", "NEUTRAL"}}

notFuse ==
  <<systemVars, grading, planning, profile, sessionCall, backtest, orbCall, reservoir, auth>>

\* daemon.ts 121-122: before the open the cycle calls the Black-Scholes
\* engine with volatility 0.25 and the bias NEUTRAL
FusePreMarket ==
  /\ fuse.pc = "call"
  /\ fuse.kind = "PRE_MARKET"
  /\ fuse' = [fuse EXCEPT
                !.pc = "gate",
                !.supplied = "NEUTRAL",
                !.prediction =
                  generateBlackScholesPrediction(fuse.window.currentPrice, 25, "NEUTRAL")]
  /\ UNCHANGED notFuse

\* parallax.ts 241-283 called with a bias of the caller
FuseBlackScholes ==
  /\ fuse.pc = "call"
  /\ fuse.kind = "BLACK_SCHOLES"
  /\ fuse' = [fuse EXCEPT
                !.pc = "done",
                !.supplied = fuse.bias,
                !.prediction = generateBlackScholesPrediction(fuse.window.currentPrice,
                                                              fuse.volatility, fuse.bias)]
  /\ UNCHANGED notFuse

\* parallax.ts 142-192: the signals are read off the window and scored;
\* below 60 nothing is returned
FuseScore ==
  /\ fuse.pc = "call"
  /\ fuse.kind = "TRADING"
  /\ LET bias == getTPOSignal(fuse.window.currentPrice, fuse.window.tpoProfile)
         rsiSignal == getRSISignal(fuse.rsi14)
         confidence ==
           calculateConfidence(confidenceComponents(bias, rsiSignal, fuse.ib,
                                                    fuse.orderFlow), fuse.weights)
     IN  fuse' = [fuse EXCEPT
                    !.pc = IF confidence.num < 60 * confidence.den THEN "gate"
                           ELSE "direction",
                    !.signal = [bias |-> bias, rsi |-> rsiSignal],
                    !.confidence = confidence]
  /\ UNCHANGED notFuse

\* parallax.ts 194-239: direction, strike and the prediction
FuseDirection ==
  /\ fuse.pc = "direction"
  /\ LET direction == tpoFirst(fuse.signal.bias, fuse.signal.rsi)
     IN  fuse' =
           IF direction = NULL THEN [fuse EXCEPT !.pc = "gate"]
           ELSE [fuse EXCEPT
                   !.pc = "gate",
                   !.strike = selectStrike(fuse.window.currentPrice, direction),
                   !.prediction =
                     [direction |-> direction, engine |-> "TPO_MIT",
                      confidence |-> fuse.confidence.num \div fuse.confidence.den]]
  /\ UNCHANGED notFuse

\* daemon.ts 145-225: a prediction of confidence 60 or more is stored
FusePersist ==
  /\ fuse.pc = "gate"
  /\ fuse' = [fuse EXCEPT
                !.pc = IF fuse.kind = "TRADING" THEN "replay" ELSE "done",
                !.persisted = /\ fuse.prediction # NoPrediction
                              /\ fuse.prediction.confidence >= 60]
  /\ UNCHANGED notFuse

\* part_004 94-117: the same window under the same weights in the replay;
\* the confidence is in hundredths
FuseReplay ==
  /\ fuse.pc = "replay"
  /\ LET genes == [tpoWeight |-> fuse.weights[1], rsiWeight |-> fuse.weights[2]]
         confidence == confidenceOf(fuse.signal, genes)
     IN  fuse' = [fuse EXCEPT
                    !.pc = "done",
                    !.replay = <<[confidence |-> confidence,
                                  accepted |-> /\ ~belowFloor(confidence, fuse.minConfidence)
                                               /\ directionOf(fuse.signal) # NULL]>>]
  /\ UNCHANGED notFuse

InitFuse == SystemIdle /\ fuse \in FuseInputs /\ LibIdle({"fuse"})

NextFuse ==
  FusePreMarket \/ FuseBlackScholes \/ FuseScore \/ FuseDirection \/ FusePersist
    \/ FuseReplay

SpecFuse == InitFuse /\ [][NextFuse]_vars

----------------------------------------------------------------------------
(* The candle store under the scheduler, daemon.ts 124-130 with              *)
(* reservoir.ts 223-238 and the table aurora_market_candles, part_011        *)
(* 138-148.  Every tick of trading hours fetches the 1-minute candles of the *)
(* session so far and stores the last ten; ticks are 30 seconds apart, so    *)
(* `half` tells the half of the minute `now`.  The table has a serial id as  *)
(* its only key: rows is the list of its rows in the order of their ids.     *)

\* Array.prototype.slice(-n)
sliceLast(candles, n) ==
  SubSeq(candles, Max({1, Len(candles) - n + 1}), Len(candles))

\* reservoir.ts 223-238 storeCandles: one insert of a row per candle
storeCandles(rows, ticker, candles) ==
  rows \o [k \in 1..Len(candles) |->
             [ticker |-> ticker, timestamp |-> candles[k].timestamp]]

ReservoirInputs ==
  {[pc |-> "tick", now |-> n, half |-> h, missing |-> m, ticks |-> 0, rows |-> <<>>] :
     n \in 570..(570 + 30), h \in {0, 1}, m \in {{}, {571}, {569 + 30}}}

notReservoir ==
  <<systemVars, grading, planning, profile, sessionCall, backtest, orbCall, fuse, auth>>

\* daemon.ts 124-130: the cycle of one tick for one ticker
ReservoirCycle ==
  /\ reservoir.pc = "tick"
  /\ reservoir.ticks < MaxStoreTicks
  /\ LET candles == Feed(reservoir.now, reservoir.missing, FALSE)
     IN  reservoir' = [reservoir EXCEPT
                         !.pc = "wait",
                         !.ticks = @ + 1,
                         !.rows = IF Len(candles) > 0
                                  THEN storeCandles(@, "SPY", sliceLast(candles, 10))
                                  ELSE @]
  /\ UNCHANGED notReservoir

\* daemon.ts 41, 259-271: the timer fires 30 seconds later
ReservoirWait ==
  /\ reservoir.pc = "wait"
  /\ reservoir' = [reservoir EXCEPT
                     !.pc = "tick",
                     !.half = 1 - @,
                     !.now = IF reservoir.half = 1 THEN @ + 1 ELSE @]
  /\ UNCHANGED notReservoir

InitReservoir == SystemIdle /\ reservoir \in ReservoirInputs /\ LibIdle({"reservoir"})

NextReservoir == ReservoirCycle \/ ReservoirWait

SpecReservoir == InitReservoir /\ [][NextReservoir]_vars

----------------------------------------------------------------------------
(* POST /api/login for the requests of one address, daemon.ts 335-362 with   *)
(* checkRateLimit and recordLoginAttempt, auth.ts 11-59.  The handler has no *)
(* await: a request is one step.  now is Date.now() in ms since the first    *)
(* request; loginAttempts is <<>> when the Map has no entry for the address, *)
(* else the entry.  log lists, for the claims, the attempts whose            *)
(* credentials were compared, and last is the latest response, with a bit    *)
(* that flips at every request.                                              *)

RATE_LIMIT_WINDOW_MS == 900000   \* 15 * 60 * 1000
MAX_LOGIN_ATTEMPTS == 5

\* The window has passed as soon as it is 15 minutes old.
checkRateLimitEarly(loginAttempts, now) ==
  IF loginAttempts = <<>> THEN [allowed |-> TRUE, loginAttempts |-> loginAttempts]
  ELSE IF now - loginAttempts[1].firstAttempt >= RATE_LIMIT_WINDOW_MS
       THEN [allowed |-> TRUE, loginAttempts |-> <<>>]
  ELSE IF loginAttempts[1].count >= MAX_LOGIN_ATTEMPTS
       THEN [allowed |-> FALSE, loginAttempts |-> loginAttempts]
  ELSE [allowed |-> TRUE, loginAttempts |-> loginAttempts]

\* auth.ts 22-42 checkRateLimit: the verdict and the Map after the call
checkRateLimit(loginAttempts, now) ==
  IF loginAttempts = <<>> THEN [allowed |-> TRUE, loginAttempts |-> loginAttempts]
  ELSE IF now - loginAttempts[1].firstAttempt > RATE_LIMIT_WINDOW_MS
       THEN [allowed |-> TRUE, loginAttempts |-> <<>>]
  ELSE IF loginAttempts[1].count >= MAX_LOGIN_ATTEMPTS
       THEN [allowed |-> FALSE, loginAttempts |-> loginAttempts]
  ELSE [allowed |-> TRUE, loginAttempts |-> loginAttempts]

\* auth.ts 44-59 recordLoginAttempt: the Map after the call
recordLoginAttempt(loginAttempts, now, success) ==
  IF success THEN <<>>
  ELSE IF loginAttempts = <<>> \/ now - loginAttempts[1].firstAttempt > RATE_LIMIT_WINDOW_MS
       THEN <<[count |-> 1, firstAttempt |-> now]>>
  ELSE <<[loginAttempts[1] EXCEPT !.count = @ + 1]>>

AuthInit ==
  [now |-> 0, loginAttempts |-> <<>>, log |-> <<>>,
   last |-> [status |-> 0, checked |-> FALSE, bit |-> 0]]

notAuth ==
  <<systemVars, grading, planning, profile, sessionCall, backtest, orbCall, fuse, reservoir>>

\* daemon.ts 335-362: one request, with a body that does not parse, with the
\* valid credentials or with others
LoginRequest ==
  \E credentials \in {"malformed", "valid", "invalid"} :
    LET rateLimitResult == checkRateLimit(auth.loginAttempts, auth.now)
        answer(status, checked) ==
          [status |-> status, checked |-> checked, bit |-> 1 - auth.last.bit]
    IN  /\ \/ ~rateLimitResult.allowed
           \/ credentials = "malformed"
           \/ Len(auth.log) < MaxAttempts
        /\ auth' =
             IF ~rateLimitResult.allowed
             THEN [auth EXCEPT !.last = answer(429, FALSE)]
             ELSE IF credentials = "malformed"
             THEN [auth EXCEPT !.loginAttempts = rateLimitResult.loginAttempts,
                               !.last = answer(400, FALSE)]
             ELSE IF credentials = "valid"
             THEN [auth EXCEPT
                     !.loginAttempts =
                       recordLoginAttempt(rateLimitResult.loginAttempts, auth.now, TRUE),
                     !.log = Append(@, [at |-> auth.now, success |-> TRUE]),
                     !.last = answer(200, TRUE)]
             ELSE [auth EXCEPT
                     !.loginAttempts =
                       recordLoginAttempt(rateLimitResult.loginAttempts, auth.now, FALSE),
                     !.log = Append(@, [at |-> auth.now, success |-> FALSE]),
                     !.last = answer(401, TRUE)]
        /\ UNCHANGED notAuth

\* Five minutes pass.
LoginWait ==
  /\ auth.now < MaxWaits * 5 * 60 * 1000
  /\ auth' = [auth EXCEPT !.now = @ + 5 * 60 * 1000]
  /\ UNCHANGED notAuth

\* auth.ts 61-71: the hourly sweep of the entries whose window has passed
LoginCleanup ==
  /\ auth.loginAttempts # <<>>
  /\ auth.now - auth.loginAttempts[1].firstAttempt > RATE_LIMIT_WINDOW_MS
  /\ auth' = [auth EXCEPT !.loginAttempts = <<>>]
  /\ UNCHANGED notAuth

InitAuth == SystemIdle /\ auth = AuthInit /\ LibIdle({"auth"})

NextAuth == LoginRequest \/ LoginWait \/ LoginCleanup

SpecAuth == InitAuth /\ [][NextAuth]_vars

\* A gene vector whose five weights are non-negative and sum to 1.
SumsToOne(genes) == Sum5(genes.w) = genes.den /\ \A i \in 1..5 : genes.w[i] >= 0

\* C16: every gene vector evolve() returns has five non-negative weights
\* that sum to 1, an elite copied from the random initial population
\* included.
C16_AlphaSumsToOne == evolveRun.pc = "done" => SumsToOne(evolveRun.alpha)

\* The gene vectors evolve() has drawn, before it breeds, and the one it has
\* returned.
Held == IF evolveRun.pc = "rank"
          THEN {evolveRun.population[i].genes : i \in 1..Len(evolveRun.population)}
          ELSE IF evolveRun.pc = "done" THEN {evolveRun.alpha} ELSE {}

\* C17: for every gene vector with a positive total and every outcome of the
\* random draws, the results of mutate and of crossover sum to 1: so does
\* every child evolve() has bred, and so do mutate and crossover applied to
\* the vectors of a fresh population and to a returned alpha.
C17_MutateAndCrossoverSumToOne ==
  /\ \A i \in 1..Len(evolveRun.nextGen) :
       (i > ELITE_COUNT /\ evolveRun.pc = "breed") => SumsToOne(evolveRun.nextGen[i].genes)
  /\ \A g1 \in Held :
       Sum5(g1.w) > 0 =>
         /\ \A hit \in [1..5 -> Mutations] : SumsToOne(mutate(g1, hit))
         /\ \A g2 \in Held : Sum5(g2.w) > 0 =>
              \A coin \in [1..5 -> BOOLEAN] : SumsToOne(crossover(g1, g2, coin))

\* C17's case: a child bred from parents whose weights did not sum to 1, by
\* a crossover that mixed them or a mutation that changed a weight.
C17_ChildBredFromUnnormalized ==
  /\ evolveRun.pc = "breed"
  /\ Len(evolveRun.nextGen) > ELITE_COUNT
  /\ \A i \in 1..Len(evolveRun.population) : ~SumsToOne(evolveRun.population[i].genes)
  /\ \E i \in 1..Len(evolveRun.nextGen) :
       /\ i > ELITE_COUNT
       /\ \A j \in 1..Len(evolveRun.population) :
            evolveRun.nextGen[i].genes # normalizeWeights(evolveRun.population[j].genes)

\* The latest active row of SPY.
ActiveRow == parameters[Len(parameters)]

\* C21: every scoring call made 60 s or more after new active Weights were
\* written uses the new weights; only a call made less than 60 s after the
\* write may still score with older ones.
C21_NewWeightsAfterTTL ==
  \A c \in BagToSet(fuserCalls) :
    (/\ c.pc \in {"score", "scored"}
     /\ parameters # <<>>
     /\ c.now - ActiveRow.lastUpdated >= GENES_REFRESH_INTERVAL)
    => c.writes = ActiveRow.writes

\* C22: with a corrupt active row the Fuser scores with the default weights,
\* exactly as if there were no active row.
C22_CorruptRowScoresWithDefaults ==
  \A c \in BagToSet(fuserCalls) :
    (c.pc = "scored" /\ c.weights = NoWeights)
    => LET byDefault == calculateConfidence(c.components, DEFAULT_WEIGHTS)
       IN  c.confidence.num * byDefault.den = byDefault.num * c.confidence.den

\* C23: the estimated premium is max(0.01, entryPremium + (currentStock -
\* entryStock) * sign * 0.5) with sign +1 for CALL and -1 for PUT, so for a
\* PUT a rise of the underlying lowers it.
C23_PremiumFollowsDirection ==
  grading.pc \in {"update", "graded"} =>
    LET sign == IF grading.pred.direction = "CALL" THEN 1 ELSE 0 - 1
        move == grading.close - grading.pred.entryPrice
    IN  grading.currentPremium
          = Max({1, grading.pred.entryTrigger + (move * sign * 50) \div 100})

\* C24: a graded prediction is a WIN when currentPremium >= target, a LOSS
\* when currentPremium <= stop, otherwise a WIN exactly when currentPremium -
\* entryPremium > 0; pnl is that difference and the status is CLOSED.
C24_VerdictPnlAndClosed ==
  grading.pc = "graded" =>
    /\ grading.pnl = grading.currentPremium - grading.pred.entryTrigger
    /\ grading.pred.status = "CLOSED"
    /\ grading.result =
         (IF grading.currentPremium >= grading.pred.takeProfit THEN "WIN"
          ELSE IF grading.currentPremium <= grading.pred.stopLoss THEN "LOSS"
          ELSE IF grading.currentPremium - grading.pred.entryTrigger > 0 THEN "WIN"
          ELSE "LOSS")

\* C24's case: graded between stop and target with the premium unchanged.
C24_GradedFlatBetweenStopAndTarget ==
  /\ grading.pc = "graded"
  /\ grading.currentPremium > grading.pred.stopLoss
  /\ grading.currentPremium < grading.pred.takeProfit
  /\ grading.pnl = 0
  /\ grading.result = "LOSS"

\* C25: every prediction the scheduler stores carries entry, stop and target
\* as premiums of the option contract; none is stored with its plan still in
\* price levels of the underlying, also when no expiration or no contract at
\* the strike is found.
C25_StoredPlanIsInPremiums ==
  planning.pc = "stored" => planning.plan.levels = "premium"

\* The histogram mass at the ticks within [VAL, VAH] of the returned profile.
ValueAreaMass ==
  sumOver(profile.volumeByPrice,
          {p \in DOMAIN profile.volumeByPrice : profile.val <= p /\ p <= profile.vah})

\* C26: for every non-empty candle window the profile has VAL <= POC <= VAH
\* and the mass within [VAL, VAH] is at least 0.70 of the total mass.
C26_ValueAreaHoldsSeventyPercent ==
  profile.pc = "done" =>
    /\ profile.val <= profile.poc /\ profile.poc <= profile.vah
    /\ ValueAreaMass * 100 >= VALUE_AREA_PERCENT * profile.totalVolume

\* C26's case: a profile whose value area grew beyond the POC and stopped
\* short of the whole range.
C26_ValueAreaInsideRange ==
  /\ profile.pc = "done"
  /\ profile.val < profile.vah
  /\ ValueAreaMass < profile.totalVolume

\* The session table: weekend, then holiday, then the minute of the day
\* against the close C (780 on a half day, 960 otherwise).
TableTag(weekend, holiday, halfDay, m) ==
  LET C == IF halfDay THEN 780 ELSE 960
  IN  CASE weekend -> "CLOSED_WEEKEND"
        [] ~weekend /\ holiday -> "CLOSED_HOLIDAY"
        [] ~weekend /\ ~holiday /\ (m < 240 \/ m >= C) -> "CLOSED"
        [] ~weekend /\ ~holiday /\ 240 <= m /\ m < 570 /\ m < C -> "PRE_MARKET"
        [] ~weekend /\ ~holiday /\ 570 <= m /\ m < 600 /\ m < C -> "OPENING_RANGE"
        [] ~weekend /\ ~holiday /\ 600 <= m /\ m < 720 /\ m < C -> "MORNING"
        [] ~weekend /\ ~holiday /\ 720 <= m /\ m < 780 /\ m < C -> "AFTERNOON"
        [] ~weekend /\ ~holiday /\ 780 <= m /\ m < C -> "POWER_HOUR"
        [] OTHER -> "NO_ROW"

\* C27: for every weekday, holiday flag, half-day flag and minute 0..1439
\* getSession returns the tag of the session table and never OPEN.
C27_SessionFollowsTable ==
  sessionCall.pc = "done" =>
    /\ sessionCall.result =
         TableTag(sessionCall.weekday \in {6, 7}, sessionCall.holiday,
                  sessionCall.halfDay, sessionCall.totalMinutes)
    /\ sessionCall.result # "OPEN"

\* C27's case: a half day at 13:30 local time has been classified.
C27_HalfDayAfternoonClassified ==
  /\ sessionCall.pc = "done"
  /\ sessionCall.weekday <= 5 /\ ~sessionCall.holiday /\ sessionCall.halfDay
  /\ sessionCall.totalMinutes = 810

\* C28: on one candle history and one set of component weights, the replay
\* with the larger minConfidence never reports more totalTrades than the
\* replay with the smaller one.
C28_HigherFloorNoMoreTrades ==
  backtest.pc = "done" => backtest.reports[2] <= backtest.reports[1]

\* C28's case: the larger minConfidence kept some trades and dropped others.
C28_HigherFloorDroppedTrades ==
  /\ backtest.pc = "done"
  /\ backtest.minConfidences[1] < backtest.minConfidences[2]
  /\ 0 < backtest.reports[2]
  /\ backtest.reports[2] < backtest.reports[1]

\* The ticker's turn ended with a prediction of the ORB engine.
OrbPredicted ==
  /\ orbCall.pc = "done"
  /\ orbCall.prediction.engine = "ORB_MOMENTUM"

\* C29: with fewer than 30 one-minute candles of the opening range
\* available, the ORB engine returns no prediction.
C29_SilentBelowThirtyRangeCandles ==
  orbCall.pc = "done" /\ Len(orbCandlesOf(orbCall.candles)) < 30 => ~OrbPredicted

\* The price has left the complete 30-minute range far enough for a
\* confidence of 60.
StrongBreakout ==
  /\ Len(orbCandlesOf(orbCall.candles)) = 30
  /\ LET orbLevels == calculateORB(orbCandlesOf(orbCall.candles))
         confidence == breakoutConfidence(orbLevels, orbCall.currentPrice)
     IN  /\ breakoutDirection(orbLevels, orbCall.currentPrice) # NULL
         /\ confidence.num >= 60 * confidence.den

\* C30: a regular-hours cycle in which the TPO+MIT engine found nothing while
\* the price is beyond the 30-minute range with a confidence of at least 60
\* produces an ORB_MOMENTUM prediction in the direction of the breakout.
C30_BreakoutYieldsORBPrediction ==
  /\ orbCall.pc = "done"
  /\ orbCall.session \in {"OPENING_RANGE", "MORNING", "AFTERNOON", "POWER_HOUR"}
  /\ orbCall.tpoSilent
  /\ StrongBreakout
  => /\ OrbPredicted
     /\ orbCall.prediction.direction =
          breakoutDirection(calculateORB(orbCandlesOf(orbCall.candles)),
                            orbCall.currentPrice)

\* C31: every ORBLevels value calculateORB returns for a non-empty candle
\* list has low < high, rangeSize = high - low, mid = (high + low) / 2,
\* bullTarget1 = high + rangeSize and both stops at mid, flat candles
\* included.
C31_LevelsSpanARange ==
  orbCall.pc = "done" /\ orbCall.orbLevels # <<>> =>
    LET orbLevels == orbCall.orbLevels[1]
    IN  /\ orbLevels.low < orbLevels.high
        /\ orbLevels.rangeSize = orbLevels.high - orbLevels.low
        /\ 2 * orbLevels.mid = orbLevels.high + orbLevels.low
        /\ orbLevels.targetBull1 = orbLevels.high + orbLevels.rangeSize
        /\ orbLevels.stopLossLong = orbLevels.mid
        /\ orbLevels.stopLossShort = orbLevels.mid

\* The plan of the candidate is the delta projection of its contract.
Projected ==
  /\ planning.pc \in {"store", "stored"}
  /\ planning.expiration # NULL
  /\ planning.contract.found /\ planning.contract.bid > 0 /\ planning.contract.greeks

\* C32: for every option mid, stock levels and delta, calculate returns
\* entry = mid, stop = max(0.05, mid - |stop - entry| * |delta|),
\* target = max(0.05, mid + |target - entry| * |delta|) and
\* riskReward = (target - mid) / (mid - stop) when mid - stop > 0, else 0.
C32_ProjectionFollowsDelta ==
  Projected =>
    LET mid == (planning.contract.bid + planning.contract.ask) \div 2
        magnitude == IF planning.contract.delta < 0 THEN 0 - planning.contract.delta
                     ELSE planning.contract.delta
        stopDistance == IF planning.stockLevels.stop < planning.stockLevels.entry
                        THEN planning.stockLevels.entry - planning.stockLevels.stop
                        ELSE planning.stockLevels.stop - planning.stockLevels.entry
        targetDistance == IF planning.stockLevels.target < planning.stockLevels.entry
                          THEN planning.stockLevels.entry - planning.stockLevels.target
                          ELSE planning.stockLevels.target - planning.stockLevels.entry
        stop == IF mid * 100 - stopDistance * magnitude < 500 THEN 500
                ELSE mid * 100 - stopDistance * magnitude
        target == mid * 100 + targetDistance * magnitude
    IN  /\ planning.plan.entry = mid
        /\ planning.plan.stop * 100 = stop
        /\ planning.plan.target * 100 = target
        /\ planning.plan.stop >= 5 /\ planning.plan.target >= 5
        /\ IF mid * 100 - stop > 0
           THEN /\ (2 * planning.plan.riskReward - 1) * (mid * 100 - stop)
                     <= 200 * (target - mid * 100)
                /\ 200 * (target - mid * 100)
                     < (2 * planning.plan.riskReward + 1) * (mid * 100 - stop)
           ELSE planning.plan.riskReward = 0

\* C32's case: delta -0.5, mid 1.20, stop distance 1 and target distance 2
\* give entry 1.20, stop 0.70, target 2.20 and riskReward 2.0.
C32_PutProjectedAtHalfDelta ==
  /\ Projected
  /\ planning.contract.delta = 0 - 50
  /\ planning.contract.bid = 110 /\ planning.contract.ask = 130
  /\ planning.stockLevels.stop - planning.stockLevels.entry = 100
  /\ planning.stockLevels.entry - planning.stockLevels.target = 200
  /\ planning.plan.entry = 120 /\ planning.plan.stop = 70
  /\ planning.plan.target = 220 /\ planning.plan.riskReward = 200

\* C39: the entryPrice of every stored prediction, which the grader
\* subtracts from the current close of the underlying, is the price of the
\* underlying at generation time (500.00), also when the contract's plan was
\* laid over the prediction before it was stored.
C39_StoredEntryPriceIsUnderlying ==
  planning.pc = "stored" => planning.entryPrice = 50000

\* C38: once the grader is through with it, a prediction that was ACTIVE
\* with a positive entry premium and a stored candle of its ticker is CLOSED
\* with an Outcome, whether or not its premium reached the stop or the
\* target; one without entry premium or without candle is still ACTIVE and
\* has no Outcome.
C38_GradableClosedOthersUntouched ==
  grading.pc \in {"graded", "skipped"} =>
    IF grading.pred.entryTrigger > 0 /\ grading.hasCandle
    THEN grading.pred.status = "CLOSED" /\ grading.result \in {"WIN", "LOSS"}
    ELSE grading.pred.status = "ACTIVE" /\ grading.result = NULL

\* C38's case: graded with the premium strictly between stop and target.
C38_ClosedShortOfStopAndTarget ==
  /\ grading.pc = "graded"
  /\ grading.pred.stopLoss < grading.currentPremium
  /\ grading.currentPremium < grading.pred.takeProfit
  /\ grading.pnl > 0
  /\ grading.pred.status = "CLOSED" /\ grading.result = "WIN"

\* C33: in a PRE_MARKET cycle the Black-Scholes engine yields a prediction
\* only when the bias supplied to it is BULLISH or BEARISH; with the bias
\* NEUTRAL no prediction is produced or persisted in that cycle
C33_NeutralBiasYieldsNothing ==
  (fuse.kind \in {"PRE_MARKET", "BLACK_SCHOLES"} /\ fuse.pc = "done") =>
    /\ fuse.prediction # NoPrediction => fuse.supplied \in {"BULLISH", "BEARISH"}
    /\ fuse.supplied = "NEUTRAL" => fuse.prediction = NoPrediction /\ ~fuse.persisted

\* A cycle before the open has called the engine and stored nothing.
C33_PreMarketCycleStoredNothing ==
  /\ fuse.kind = "PRE_MARKET"
  /\ fuse.pc = "done"
  /\ fuse.supplied = "NEUTRAL"
  /\ ~fuse.persisted

\* The direction the TPO bias and RSI14 of a call stand for: the bias if it
\* is LONG or SHORT, else the RSI extreme, else none.
DirectionByRule ==
  IF fuse.signal.bias = "LONG" THEN "CALL"
  ELSE IF fuse.signal.bias = "SHORT" THEN "PUT"
  ELSE IF fuse.rsi14 # <<>> /\ fuse.rsi14[1] < 30 THEN "CALL"
  ELSE IF fuse.rsi14 # <<>> /\ fuse.rsi14[1] > 70 THEN "PUT"
  ELSE NULL

\* C34: a prediction of the TPO+MIT engine is a CALL when the TPO bias is
\* LONG and a PUT when it is SHORT, whatever the RSI; on a NEUTRAL bias it
\* is a CALL for RSI14 < 30 and a PUT for RSI14 > 70; in every other case no
\* prediction is returned
C34_TPOBiasDecidesDirection ==
  (fuse.kind = "TRADING" /\ fuse.pc \in {"gate", "replay", "done"}) =>
    /\ fuse.prediction # NoPrediction => fuse.prediction.direction = DirectionByRule
    /\ DirectionByRule = NULL => fuse.prediction = NoPrediction

\* A SHORT bias made a PUT of an oversold window.
C34_ShortBiasOverridesOversold ==
  /\ fuse.kind = "TRADING"
  /\ fuse.pc = "done"
  /\ fuse.signal.bias = "SHORT"
  /\ fuse.rsi14 = <<25>>
  /\ fuse.prediction.direction = "PUT"

\* C35: for every positive current price the strike of a prediction is out
\* of the money: not below the price for a CALL, not above it for a PUT
C35_StrikeOutOfTheMoney ==
  (fuse.kind = "TRADING" /\ fuse.pc = "done" /\ fuse.prediction # NoPrediction) =>
    IF fuse.prediction.direction = "CALL"
    THEN fuse.strike * 100 >= fuse.window.currentPrice
    ELSE fuse.strike * 100 <= fuse.window.currentPrice

\* C36: for the same window and weights the replay computes the confidence
\* of the live TPO+MIT engine and accepts the window exactly when the live
\* engine returns a prediction
C36_ReplayScoresAsLive ==
  (fuse.kind = "TRADING" /\ fuse.pc = "done") =>
    /\ fuse.replay[1].confidence * fuse.confidence.den = fuse.confidence.num * 100
    /\ fuse.replay[1].accepted <=> fuse.prediction # NoPrediction

\* C37: after any number of scheduler ticks the candle store holds at most
\* one row per (ticker, timestamp)
C37_OneRowPerCandle ==
  \A i, j \in 1..Len(reservoir.rows) :
    (/\ reservoir.rows[i].ticker = reservoir.rows[j].ticker
     /\ reservoir.rows[i].timestamp = reservoir.rows[j].timestamp) => i = j

\* The failed attempts of the current window, read off the attempts made: a
\* success ends the window, a failure more than 15 minutes after the first
\* of its window starts the next.
RECURSIVE failuresUpTo(_)
failuresUpTo(k) ==
  IF k = 0 THEN [n |-> 0, first |-> 0]
  ELSE LET before == failuresUpTo(k - 1)
           attempt == auth.log[k]
       IN  IF attempt.success THEN [n |-> 0, first |-> 0]
           ELSE IF before.n = 0 \/ attempt.at - before.first > 15 * 60 * 1000
                THEN [n |-> 1, first |-> attempt.at]
           ELSE [n |-> before.n + 1, first |-> before.first]

LockedOut ==
  LET window == failuresUpTo(Len(auth.log))
  IN  window.n >= 5 /\ auth.now - window.first <= 15 * 60 * 1000

LockedOutRejected ==
  (auth'.last.bit # auth.last.bit /\ LockedOut) =>
    auth'.last.status = 429 /\ ~auth'.last.checked /\ auth'.log = auth.log

OthersAdmitted ==
  (auth'.last.bit # auth.last.bit /\ ~LockedOut) => auth'.last.status # 429

\* C40: once an address has 5 failed logins within the 15 minutes that start
\* at its first failure, every further request of it is rejected without a
\* look at its credentials until more than 15 minutes have passed since that
\* first failure, and no request is rejected otherwise; a successful login
\* before the fifth failure resets the count to zero
C40_FiveFailuresLockOut ==
  /\ [](\/ auth.log = <<>>
        \/ ~auth.log[Len(auth.log)].success
        \/ auth.loginAttempts = <<>>)
  /\ [][LockedOutRejected /\ OthersAdmitted]_vars

\* A request is rejected exactly 15 minutes after the first of five failures.
C40_RejectedAtFifteenMinutes ==
  /\ auth.last.status = 429
  /\ failuresUpTo(Len(auth.log)).n = 5
  /\ auth.now - failuresUpTo(Len(auth.log)).first = 15 * 60 * 1000
  /\ \E k \in 1..Len(auth.log) : auth.log[k].success

\* C15: checkAndTriggerEvolution(rate) runs the optimizer and writes weights
\* only when rate < 0.60; for every rate >= 0.60, exactly 0.60 included, it
\* returns false and leaves the parameter table and the delta log as they
\* were.  (rate = wins / graded; the delta log starts empty.)
C15_EvolvesOnlyBelowTarget ==
  \A g \in BagToSet(graders) :
    LET below == g.wins * 100 < 60 * g.graded IN
      /\ g.pc \in {"saveSelect", "saveDelta", "saveUpdate", "saveInsert"} => below
      /\ g.pc = "return" => ((g.genes # 0 \/ g.error = "evolve") <=> below)
      /\ (g.pc = "return" /\ ~below) => (parameters = g.before /\ deltas = 0)

\* C15's case: the call has returned for a batch of 3 wins out of 5.
C15_ReturnedAtExactlyTarget ==
  \E g \in BagToSet(graders) :
    g.pc = "return" /\ g.graded = 5 /\ g.wins = 3 /\ g.genes = 0 /\ parameters # <<>>
====
